---- MODULE Spec2Model ----
(***************************************************************************)
(* Ledger core of the banking account management system: accounts, the     *)
(* append-only transaction journal, the per-account mutex, and the         *)
(* deposit / withdraw / create / block operations that run on them.        *)
(*                                                                         *)
(* Every operation is an async function.  It runs without interruption     *)
(* from one `await` to the next, and other calls may run at each `await`.  *)
(* One action of this module is one such uninterrupted block.              *)
(***************************************************************************)
EXTENDS Integers, Sequences, FiniteSets, TLC

(***************************************************************************)
(* Bounds of the model.                                                    *)
(***************************************************************************)
MaxCalls == 3

\* The calls of a run of the keyed operations, and how many of them may be
\* in flight at once.
MaxKeyedCalls == 5

MaxInFlight == 3

\* The calls of a run on the PostgreSQL store.
MaxPgCalls == 4

\* The calls of a run of blocks, unblocks and movements on one account.
MaxBlockCalls == 5

\* The calls of such a run that may be in flight together.
MaxBlockInFlight == 2
MaxRefuseCalls == 4
MaxRefuseInFlight == 2
MaxMutexCalls == 4
MaxMutexInFlight == 3
MaxOverflowCalls == 4
MaxOverflowInFlight == 2
MaxRetryCalls == 5
MaxRetryInFlight == 2
MaxSweepCalls == 3
MaxSweepInFlight == 3
MaxDailyCalls == 5
MaxDailyInFlight == 1
MaxStoreCalls == 4
MaxGuardCalls == 3
MaxDestroyCalls == 3
MaxDestroyInFlight == 2
MaxReleaseCalls == 4
MaxReleaseInFlight == 3
MaxTime == 420000
TTL_MS == 300000

\* config.RETRY_MAX_ATTEMPTS
MAX_RETRIES == 3

MAX_CENTS == 2000000000
\* Number.MAX_SAFE_INTEGER is 2^53 - 1.  The integers of the checker have 32
\* bits, so the bound is taken as 2^30 - 1: the code only compares a sum of
\* two amounts with it, and a sum of two numbers up to the bound fits.
MAX_SAFE_INTEGER == 1073741823

AccountIds == {1, 2}

MutexKeys == AccountIds

\* The Mutex that destroy() removed from the map while it was in use, for
\* each key: the calls that locked it still hold or await that object.
Orphan(key) == -key

\* The Mutex objects: for each key the one the map holds or will create, and
\* the one removed by destroy().
MutexInstances == MutexKeys \cup {Orphan(key) : key \in MutexKeys}

\* UTC calendar days: all that the code reads of a timestamp is its day,
\* toISOString().slice(0, 10).
Days == {1, 2}

Amounts == {0, 1, 2}

InitialBalances == {0, 3}

Limits == {1, 2}

NoKey == 0

IdempotencyKeys == {1}

KeyedAmounts == {1}

KeyedInitialBalances == {0, 3}

KeyedLimits == {2}

KeyedDays == {1}

Undefined == -1

NoAccount ==
  [accountId |-> 0, balanceCents |-> 0, dailyWithdrawalLimitCents |-> 0,
   activeFlag |-> FALSE]

NoRequest ==
  [op |-> "none", accountId |-> 0, amountCents |-> 0,
   dailyWithdrawalLimitCents |-> 0, idempotencyKey |-> NoKey,
   concurrent |-> FALSE, prior |-> {}, conflict |-> FALSE, flag |-> "none"]

NoTransaction ==
  [transactionId |-> 0, accountId |-> 0, valueCents |-> 0,
   transactionDate |-> 0, balanceAfter |-> Undefined, idempotencyKey |-> NoKey]

NoLocal ==
  [account |-> NoAccount, withdrawals |-> 0, today |-> 0, tx |-> 0,
   existing |-> NoTransaction, attemptNum |-> 0, snapshot |-> 0]

NoResult ==
  [error |-> "pending", balanceCents |-> 0, transactionId |-> 0,
   accountId |-> 0, retries |-> 0, message |-> <<>>]

VARIABLES
  accounts,      \* MemoryAccountsRepository.accounts: accountId -> Account
  transactions,  \* MemoryTransactionsRepository.transactions, in push order
  locked,        \* Mutex.locked of the mutex MutexMap holds for each key
  queue,         \* Mutex.queue of that mutex: the waiting calls, oldest first
  pc,            \* where each call stands
  req,           \* the arguments each call was made with
  loc,           \* the local variables of each call
  res,           \* what each call returned or threw
  created,       \* history: the balance each account was created with
  clockReads,    \* history: the days the clock has been read on
  rowLock,       \* PostgreSQL: the call whose transaction holds each account row
  rowVersion,    \* PostgreSQL: the committed updates of each account row
  map,           \* MutexMap.map: lastUsed of each key, Undefined if absent
  dateNow,       \* Date.now(), in milliseconds
  destroyed,     \* MutexMap.destroyed
  detached       \* the calls whose Mutex destroy() has removed from the map

vars ==
  <<accounts, transactions, locked, queue, pc, req, loc, res, created,
    clockReads, rowLock, rowVersion, map, dateNow, destroyed, detached>>

\* The calls of a run, numbered in the order they are made.
Calls == DOMAIN pc

----
(***************************************************************************)
(* Pure helpers.                                                           *)
(***************************************************************************)

\* AccountsService.validateCents: the value is rejected.
validateCentsFails(value) == value > MAX_CENTS

\* The journal entries of one account, in push order.
RECURSIVE EntriesOf(_, _)
EntriesOf(txs, accountId) ==
  IF txs = <<>> THEN <<>>
  ELSE (IF Head(txs).accountId = accountId THEN <<Head(txs)>> ELSE <<>>)
         \o EntriesOf(Tail(txs), accountId)

RECURSIVE SumValueCents(_)
SumValueCents(txs) ==
  IF txs = <<>> THEN 0 ELSE Head(txs).valueCents + SumValueCents(Tail(txs))

Abs(n) == IF n < 0 THEN -n ELSE n

\* The account's debits of every day, whatever the day asked for.
RECURSIVE sumWithdrawalsAllDays(_, _, _)
sumWithdrawalsAllDays(txs, accountId, day) ==
  IF txs = <<>> THEN 0
  ELSE (IF Head(txs).accountId = accountId /\ Head(txs).valueCents < 0
        THEN Abs(Head(txs).valueCents) ELSE 0)
       + sumWithdrawalsAllDays(Tail(txs), accountId, day)

\* MemoryTransactionsRepository.sumWithdrawalsForDay
RECURSIVE sumWithdrawalsForDay(_, _, _)
sumWithdrawalsForDay(txs, accountId, day) ==
  IF txs = <<>> THEN 0
  ELSE (IF /\ Head(txs).accountId = accountId
           /\ Head(txs).transactionDate = day
           /\ Head(txs).valueCents < 0
        THEN Abs(Head(txs).valueCents) ELSE 0)
       + sumWithdrawalsForDay(Tail(txs), accountId, day)

\* The account ids whose createAccount call has returned: the only ids a
\* caller can know (an id is a random UUID).
KnownAccountIds ==
  {res[c].accountId :
     c \in {d \in Calls : /\ req[d].op = "createAccount"
                          /\ pc[d] = "done"
                          /\ res[d].error = "ok"}}

TargetIds == KnownAccountIds

NextAccountId == Cardinality({a \in AccountIds : accounts[a] # NoAccount}) + 1

NextTransactionId == Len(transactions) + 1

NextCall == CHOOSE c \in Calls : pc[c] = "idle" /\ \A d \in 1..(c - 1) : pc[d] # "idle"

CanCall == \E c \in Calls : pc[c] = "idle"

DoneCalls == {c \in Calls : pc[c] = "done"}

----
(***************************************************************************)
(* Mutex (src/infra/memory/mutex.ts).                                      *)
(***************************************************************************)

\* A mutex that never makes a caller wait.
MutexNeverBusy(key) == FALSE

\* Mutex.lock: `if (this.locked)`, the caller must queue.
MutexBusy(key) == locked[key]

NeverLocked(key) == FALSE

\* Mutex.isLocked.
isLocked(key) == locked[key] \/ Len(queue[key]) > 0

\* MutexMap.get: lastUsed of the key is set to Date.now().  A key that is
\* absent gets `new Mutex()`: locked false and an empty queue.
MutexMapGet(key) == map' = [map EXCEPT ![key] = dateNow]

\* MutexMap.cleanup, first pass: the keys not fetched for more than TTL_MS
\* whose mutex is not locked.
toDelete ==
  {key \in MutexKeys : /\ map[key] # Undefined
                       /\ dateNow - map[key] > TTL_MS
                       /\ ~isLocked(key)}

\* MutexMap.cleanup, run by the interval timer: both passes are one
\* synchronous block.
cleanup ==
  /\ ~destroyed
  /\ map' = [key \in MutexKeys |->
               IF key \in toDelete /\ map[key] # Undefined /\ ~isLocked(key)
               THEN Undefined ELSE map[key]]
  /\ UNCHANGED <<accounts, transactions, locked, queue, pc, req, loc, res,
                 created, clockReads, rowLock, rowVersion, dateNow, destroyed, detached>>

\* MutexMap.destroy: the timer is cleared and the map emptied, whatever the
\* state of its mutexes.  The calls that hold or await a Mutex keep that
\* object; the next get of the key creates a new one.  The model keeps one
\* removed Mutex for each key: destroy is taken when no call is left on a
\* Mutex removed before.
destroy ==
  /\ detached \cap {c \in Calls : pc[c] \notin {"idle", "done"}} = {}
  /\ destroyed' = TRUE
  /\ map' = [key \in MutexKeys |-> Undefined]
  /\ detached' = {c \in Calls : /\ pc[c] \notin {"idle", "done"}
                                /\ req[c].op \in {"deposit", "withdraw"}}
  /\ locked' = [mutex \in MutexInstances |->
                  IF mutex \in MutexKeys THEN FALSE ELSE locked[-mutex]]
  /\ queue' = [mutex \in MutexInstances |->
                 IF mutex \in MutexKeys THEN <<>> ELSE queue[-mutex]]
  /\ UNCHANGED <<accounts, transactions, pc, req, loc, res, created,
                 clockReads, rowLock, rowVersion, dateNow>>

\* Time passes: one period of the cleanup timer, or the whole TTL.
TimeSteps == {60000, TTL_MS}

Tick(d) ==
  /\ dateNow + d <= MaxTime
  /\ dateNow' = dateNow + d
  /\ UNCHANGED <<accounts, transactions, locked, queue, pc, req, loc, res,
                 created, clockReads, rowLock, rowVersion, map,
                 destroyed, detached>>

\* The Mutex whose lock() call c made for `key`: the release handle is a
\* closure over that object.
MutexOf(c, key) == IF c \in detached THEN Orphan(key) ELSE key

\* Mutex.lock called by call c on the mutex of `key`: the caller either takes
\* the lock at once or joins the queue.
MutexLock(c, key) ==
  IF MutexBusy(key)
  THEN /\ queue' = [queue EXCEPT ![key] = Append(@, c)]
       /\ locked' = locked
       /\ pc' = [pc EXCEPT ![c] = "waiting"]
  ELSE /\ locked' = [locked EXCEPT ![key] = TRUE]
       /\ queue' = queue
       /\ pc' = [pc EXCEPT ![c] = "granted"]

\* A release handle that drops the oldest waiter without resolving it.
MutexReleaseForgets(c, key, pcOfC) ==
  /\ queue' = [queue EXCEPT ![key] = IF @ = <<>> THEN @ ELSE Tail(@)]
  /\ locked' = [locked EXCEPT ![key] = FALSE]
  /\ pc' = [pc EXCEPT ![c] = pcOfC]

\* A release handle that resolves the oldest waiter and unlocks as well.
MutexReleaseUnlocks(c, key, pcOfC) ==
  /\ locked' = [locked EXCEPT ![key] = FALSE]
  /\ IF queue[key] # <<>>
     THEN /\ queue' = [queue EXCEPT ![key] = Tail(@)]
          /\ pc' = [pc EXCEPT ![c] = pcOfC, ![Head(queue[key])] = "granted"]
     ELSE /\ queue' = queue
          /\ pc' = [pc EXCEPT ![c] = pcOfC]

\* A release handle that resolves the newest waiter (queue.pop()).
MutexReleaseNewest(c, key, pcOfC) ==
  IF queue[key] # <<>>
  THEN /\ queue' = [queue EXCEPT ![key] = SubSeq(@, 1, Len(@) - 1)]
       /\ locked' = locked
       /\ pc' = [pc EXCEPT ![c] = pcOfC,
                           ![queue[key][Len(queue[key])]] = "granted"]
  ELSE /\ locked' = [locked EXCEPT ![key] = FALSE]
       /\ queue' = queue
       /\ pc' = [pc EXCEPT ![c] = pcOfC]

\* release() at the end of the try block instead of in `finally`: a call that
\* throws keeps the mutex.
MutexReleaseOnReturn(c, key, pcOfC) ==
  IF res'[c].error # "ok"
  THEN /\ pc' = [pc EXCEPT ![c] = pcOfC]
       /\ UNCHANGED <<locked, queue>>
  ELSE IF queue[key] # <<>>
  THEN /\ queue' = [queue EXCEPT ![key] = Tail(@)]
       /\ locked' = locked
       /\ pc' = [pc EXCEPT ![c] = pcOfC, ![Head(queue[key])] = "granted"]
  ELSE /\ locked' = [locked EXCEPT ![key] = FALSE]
       /\ queue' = queue
       /\ pc' = [pc EXCEPT ![c] = pcOfC]

\* The release handle of call c: the oldest waiter is resolved, or the mutex
\* is unlocked.  pcOfC is where c itself goes on.
MutexRelease(c, key, pcOfC) ==
  LET mutex == MutexOf(c, key)
  IN IF queue[mutex] # <<>>
     THEN /\ queue' = [queue EXCEPT ![mutex] = Tail(@)]
          /\ locked' = locked
          /\ pc' = [pc EXCEPT ![c] = pcOfC, ![Head(queue[mutex])] = "granted"]
     ELSE /\ locked' = [locked EXCEPT ![mutex] = FALSE]
          /\ queue' = queue
          /\ pc' = [pc EXCEPT ![c] = pcOfC]

----
(***************************************************************************)
(* Repositories (src/infra/memory).                                        *)
(***************************************************************************)

\* A create that writes the entry over the newest one.
TransactionsOverwrite(accountId, valueCents, day, balanceAfter, key) ==
  transactions' =
    Append(SubSeq(transactions, 1, Len(transactions) - 1),
           [transactionId |-> NextTransactionId, accountId |-> accountId,
            valueCents |-> valueCents, transactionDate |-> day,
            balanceAfter |-> balanceAfter, idempotencyKey |-> key])

\* MemoryTransactionsRepository.create: the entry is pushed; nothing is checked.
TransactionsCreate(accountId, valueCents, day, balanceAfter, key) ==
  transactions' =
    Append(transactions,
           [transactionId |-> NextTransactionId, accountId |-> accountId,
            valueCents |-> valueCents, transactionDate |-> day,
            balanceAfter |-> balanceAfter, idempotencyKey |-> key])

\* An updateBalance that adds its argument to the stored balance.
updateBalanceAdds(accountId, balanceCents) ==
  accounts' = [accounts EXCEPT ![accountId].balanceCents = @ + balanceCents]

\* MemoryAccountsRepository.updateBalance: the stored account, with the
\* balance replaced.
updateBalance(accountId, balanceCents) ==
  accounts' = [accounts EXCEPT ![accountId].balanceCents = balanceCents]

\* MemoryAccountsRepository.setActiveFlag
setActiveFlag(accountId, activeFlag) ==
  accounts' = [accounts EXCEPT ![accountId].activeFlag = activeFlag]

\* The calls that have been made and have not returned.
InFlight == {c \in Calls : pc[c] \notin {"idle", "done"}}

\* What a call finds the activeFlag of its account to be when it is made:
\* "changing" while a blockAccount or unblockAccount on the account is in
\* flight.
FlagAtIssue(accountId) ==
  IF accountId \notin AccountIds THEN "none"
  ELSE IF accounts[accountId] = NoAccount THEN "none"
  ELSE IF \E d \in InFlight : /\ req[d].accountId = accountId
                               /\ req[d].op \in {"blockAccount", "unblockAccount"}
  THEN "changing"
  ELSE IF accounts[accountId].activeFlag THEN "active" ELSE "blocked"

\* A call made now, with its arguments; `concurrent` records whether another
\* call on the same account is in flight, `flag` what FlagAtIssue says.
Issue(c, request) ==
  req' = [req EXCEPT ![c] =
            [request EXCEPT
               !.concurrent =
                 \E d \in InFlight : /\ req[d].accountId = request.accountId
                                      /\ request.accountId \in AccountIds,
               !.flag = FlagAtIssue(request.accountId)]]

\* this.now(): the injected clock returns a time of any day.
now(day) == clockReads' = clockReads \cup {day}

\* The message an error class gives an error constructed without one.
DefaultMessage(code) ==
  CASE code = "NOT_FOUND" -> "Account not found"
    [] code = "PERSON_NOT_FOUND" -> "Person not found"
    [] code = "ACCOUNT_BLOCKED" -> "Account is blocked"
    [] code = "ALREADY_BLOCKED" -> "Account is already blocked"
    [] code = "ALREADY_UNBLOCKED" -> "Account is already unblocked"
    [] code = "INVALID_AMOUNT" -> "Amount must be greater than zero"
    [] code = "INSUFFICIENT_FUNDS" -> "Insufficient funds"
    [] code = "DAILY_LIMIT_EXCEEDED" -> "Daily withdrawal limit exceeded"
    [] OTHER -> code

\* A call throws an error constructed with a message, given in its parts:
\* its local variables are gone.
FailWith(c, error, message) ==
  /\ res' = [res EXCEPT ![c] = [NoResult EXCEPT !.error = error,
                                                !.message = message]]
  /\ loc' = [loc EXCEPT ![c] = NoLocal]

\* A call returns or throws: its local variables are gone.
Fail(c, error) == FailWith(c, error, <<DefaultMessage(error)>>)

Return(c, result) ==
  /\ res' = [res EXCEPT ![c] = result]
  /\ loc' = [loc EXCEPT ![c] = NoLocal]

----
(***************************************************************************)
(* AccountsService (src/modules/accounts/service.ts), memory provider.     *)
(***************************************************************************)

\* No account counts as blocked.
AccountNeverBlocked(account) == FALSE

\* deposit, withdraw: `if (!account.activeFlag)`
AccountBlocked(account) == ~account.activeFlag

\* No toggle is refused.
NeverAlreadyInState(account, activeFlag) == FALSE

\* blockAccount: `if (!account.activeFlag)`, unblockAccount:
\* `if (account.activeFlag)`: the account is in the state asked for.
AlreadyInState(account, activeFlag) == account.activeFlag = activeFlag

\* The funds check, off by one cent.
InsufficientFundsOffByOne(balanceCents, amountCents) ==
  balanceCents + 1 < amountCents

\* `if (account.balanceCents < amountCents)` of withdraw
InsufficientFunds(balanceCents, amountCents) == balanceCents < amountCents

\* The limit check that lets one cent too many through.
DailyLimitExceededByTwo(withdrawals, amountCents, dailyWithdrawalLimitCents) ==
  withdrawals + amountCents > dailyWithdrawalLimitCents + 1

\* The limit check with >= for >: a withdrawal that exactly reaches the limit
\* is refused.
DailyLimitReached(withdrawals, amountCents, dailyWithdrawalLimitCents) ==
  withdrawals + amountCents >= dailyWithdrawalLimitCents

\* `if (withdrawals + amountCents > account.dailyWithdrawalLimitCents)`
DailyLimitExceeded(withdrawals, amountCents, dailyWithdrawalLimitCents) ==
  withdrawals + amountCents > dailyWithdrawalLimitCents

\* createAccount, up to its first await: the amounts are validated, the clock
\* is read, and MemoryAccountsRepository.create stores the account.
CallCreateAccount(c) ==
  /\ CanCall /\ c = NextCall
  /\ \E initialBalanceCents \in InitialBalances, limit \in Limits,
        personKnown \in BOOLEAN, day \in Days :
       /\ Issue(c, [NoRequest EXCEPT !.op = "createAccount",
                                     !.amountCents = initialBalanceCents,
                                     !.dailyWithdrawalLimitCents = limit])
       /\ IF \/ initialBalanceCents < 0
             \/ validateCentsFails(initialBalanceCents)
             \/ validateCentsFails(limit)
          THEN /\ Fail(c, "INVALID_AMOUNT")
               /\ pc' = [pc EXCEPT ![c] = "done"]
               /\ UNCHANGED <<accounts, created>>
               /\ UNCHANGED clockReads
          ELSE IF ~personKnown
          THEN /\ Fail(c, "PERSON_NOT_FOUND")
               /\ now(day)
               /\ pc' = [pc EXCEPT ![c] = "done"]
               /\ UNCHANGED <<accounts, created>>
          ELSE LET account ==
                     [accountId |-> NextAccountId,
                      balanceCents |-> initialBalanceCents,
                      dailyWithdrawalLimitCents |-> limit,
                      activeFlag |-> TRUE]
               IN /\ NextAccountId \in AccountIds
                  /\ accounts' = [accounts EXCEPT ![NextAccountId] = account]
                  /\ created' = [created EXCEPT ![NextAccountId] = initialBalanceCents]
                  /\ now(day)
                  /\ loc' = [loc EXCEPT ![c] = [NoLocal EXCEPT !.account = account,
                                                              !.today = day]]
                  /\ pc' = [pc EXCEPT ![c] = "accountCreated"]
                  /\ UNCHANGED res
  /\ UNCHANGED <<transactions, locked, queue,
                 rowLock, rowVersion, map, dateNow, destroyed, detached>>

\* createAccount after `await this.accountsRepo.create`: the opening entry is
\* pushed when the initial balance is positive, else the account is returned.
CreateOpeningEntry(c) ==
  /\ pc[c] = "accountCreated"
  /\ IF req[c].amountCents > 0
     THEN /\ TransactionsCreate(loc[c].account.accountId, req[c].amountCents,
                                loc[c].today, Undefined, NoKey)
          /\ pc' = [pc EXCEPT ![c] = "openingCreated"]
          /\ UNCHANGED <<loc, res>>
     ELSE /\ Return(c, [NoResult EXCEPT !.error = "ok",
                          !.accountId = loc[c].account.accountId,
                          !.balanceCents = loc[c].account.balanceCents])
          /\ pc' = [pc EXCEPT ![c] = "done"]
          /\ UNCHANGED transactions
  /\ UNCHANGED <<accounts, locked, queue, req, created, clockReads,
                 rowLock, rowVersion, map, dateNow, destroyed, detached>>

\* createAccount after `await this.transactionsRepo.create`: `return account`.
CreateAccountReturn(c) ==
  /\ pc[c] = "openingCreated"
  /\ Return(c, [NoResult EXCEPT !.error = "ok",
                  !.accountId = loc[c].account.accountId,
                  !.balanceCents = loc[c].account.balanceCents])
  /\ pc' = [pc EXCEPT ![c] = "done"]
  /\ UNCHANGED <<accounts, transactions, locked, queue, req, created, clockReads,
                 rowLock, rowVersion, map, dateNow, destroyed, detached>>

\* deposit and withdraw, up to `await mutex.lock()`: the amount is validated,
\* then the mutex of the account is locked or queued on.
CallMutationOn(c, op, ids) ==
  /\ CanCall /\ c = NextCall
  /\ \E accountId \in ids, amountCents \in Amounts :
       /\ Issue(c, [NoRequest EXCEPT !.op = op, !.accountId = accountId,
                                     !.amountCents = amountCents])
       /\ IF amountCents <= 0 \/ validateCentsFails(amountCents)
          THEN /\ Fail(c, "INVALID_AMOUNT")
               /\ pc' = [pc EXCEPT ![c] = "done"]
               /\ UNCHANGED <<locked, queue, map>>
          ELSE /\ MutexMapGet(accountId)
               /\ MutexLock(c, accountId)
               /\ UNCHANGED <<loc, res>>
  /\ UNCHANGED <<accounts, transactions, created, clockReads,
                 rowLock, rowVersion, dateNow, destroyed, detached>>

CallMutation(c, op) == CallMutationOn(c, op, TargetIds)

CallDeposit(c) == CallMutation(c, "deposit")

CallWithdraw(c) == CallMutation(c, "withdraw")

\* After the lock is granted: `this.accountsRepo.getById(accountId)` reads the
\* account; its result is delivered at the next block.
MutationGetById(c) ==
  /\ pc[c] = "granted"
  /\ req[c].op \in {"deposit", "withdraw"}
  /\ loc' = [loc EXCEPT ![c].account = accounts[req[c].accountId]]
  /\ pc' = [pc EXCEPT ![c] = "read"]
  /\ UNCHANGED <<accounts, transactions, locked, queue, req, res, created, clockReads,
                 rowLock, rowVersion, map, dateNow, destroyed, detached>>

\* deposit after `await getById`: the checks, then transactionsRepo.create
\* with the clock's time.  A throw runs `finally { release() }`.
DepositCreateTx(c) ==
  /\ pc[c] = "read" /\ req[c].op = "deposit"
  /\ IF loc[c].account = NoAccount
     THEN /\ Fail(c, "NOT_FOUND")
          /\ MutexRelease(c, req[c].accountId, "done")
          /\ UNCHANGED <<transactions, clockReads>>
     ELSE IF AccountBlocked(loc[c].account)
     THEN /\ Fail(c, "ACCOUNT_BLOCKED")
          /\ MutexRelease(c, req[c].accountId, "done")
          /\ UNCHANGED <<transactions, clockReads>>
     ELSE /\ \E day \in Days :
               /\ now(day)
               /\ TransactionsCreate(req[c].accountId, req[c].amountCents, day,
                                     Undefined, NoKey)
          /\ loc' = [loc EXCEPT ![c].tx = NextTransactionId]
          /\ pc' = [pc EXCEPT ![c] = "created"]
          /\ UNCHANGED <<locked, queue, res>>
  /\ UNCHANGED <<accounts, req, created,
                 rowLock, rowVersion, map, dateNow, destroyed, detached>>

\* deposit after `await create`: updateBalance with the balance read before;
\* `updated` is the account it returns.
DepositUpdateBalance(c) ==
  /\ pc[c] = "created" /\ req[c].op = "deposit"
  /\ updateBalance(req[c].accountId,
                   loc[c].account.balanceCents + req[c].amountCents)
  /\ loc' = [loc EXCEPT ![c].account = accounts'[req[c].accountId]]
  /\ pc' = [pc EXCEPT ![c] = "updated"]
  /\ UNCHANGED <<transactions, locked, queue, req, res, created, clockReads,
                 rowLock, rowVersion, map, dateNow, destroyed, detached>>

\* deposit and withdraw after `await updateBalance`: the result is returned
\* and `finally { release() }` runs.
MutationReturn(c) ==
  /\ pc[c] = "updated"
  /\ Return(c, [NoResult EXCEPT !.error = "ok",
                  !.balanceCents = loc[c].account.balanceCents,
                  !.transactionId = loc[c].tx])
  /\ MutexRelease(c, req[c].accountId, "done")
  /\ UNCHANGED <<accounts, transactions, req, created, clockReads,
                 rowLock, rowVersion, map, dateNow, destroyed, detached>>

\* withdraw with the balance checked before the activeFlag.
WithdrawCheckFundsFirst(c) ==
  /\ pc[c] = "read" /\ req[c].op = "withdraw"
  /\ IF loc[c].account = NoAccount
     THEN /\ Fail(c, "NOT_FOUND")
          /\ MutexRelease(c, req[c].accountId, "done")
          /\ UNCHANGED clockReads
     ELSE IF InsufficientFunds(loc[c].account.balanceCents, req[c].amountCents)
     THEN /\ Fail(c, "INSUFFICIENT_FUNDS")
          /\ MutexRelease(c, req[c].accountId, "done")
          /\ UNCHANGED clockReads
     ELSE IF AccountBlocked(loc[c].account)
     THEN /\ Fail(c, "ACCOUNT_BLOCKED")
          /\ MutexRelease(c, req[c].accountId, "done")
          /\ UNCHANGED clockReads
     ELSE /\ \E today \in Days :
               /\ now(today)
               /\ loc' = [loc EXCEPT
                    ![c].today = today,
                    ![c].withdrawals =
                       sumWithdrawalsForDay(transactions, req[c].accountId, today)]
          /\ pc' = [pc EXCEPT ![c] = "checked"]
          /\ UNCHANGED <<locked, queue, res>>
  /\ UNCHANGED <<accounts, transactions, req, created, clockReads,
                 rowLock, rowVersion, map, dateNow, destroyed, detached>>

\* withdraw after `await getById`: the checks on the account, then the clock
\* is read for `today` and sumWithdrawalsForDay is computed.
WithdrawCheck(c) ==
  /\ pc[c] = "read" /\ req[c].op = "withdraw"
  /\ IF loc[c].account = NoAccount
     THEN /\ Fail(c, "NOT_FOUND")
          /\ MutexRelease(c, req[c].accountId, "done")
          /\ UNCHANGED clockReads
     ELSE IF AccountBlocked(loc[c].account)
     THEN /\ Fail(c, "ACCOUNT_BLOCKED")
          /\ MutexRelease(c, req[c].accountId, "done")
          /\ UNCHANGED clockReads
     ELSE IF InsufficientFunds(loc[c].account.balanceCents, req[c].amountCents)
     THEN /\ LET deficit == req[c].amountCents - loc[c].account.balanceCents
             IN FailWith(c, "INSUFFICIENT_FUNDS",
                         <<"Insufficient funds: short by ", deficit, " cents">>)
          /\ MutexRelease(c, req[c].accountId, "done")
          /\ UNCHANGED clockReads
     ELSE /\ \E today \in Days :
               /\ now(today)
               /\ loc' = [loc EXCEPT
                    ![c].today = today,
                    ![c].withdrawals =
                       sumWithdrawalsForDay(transactions, req[c].accountId, today)]
          /\ pc' = [pc EXCEPT ![c] = "checked"]
          /\ UNCHANGED <<locked, queue, res>>
  /\ UNCHANGED <<accounts, transactions, req, created, clockReads,
                 rowLock, rowVersion, map, dateNow, destroyed, detached>>

\* withdraw with the journal insert moved before the daily limit check.
WithdrawCreateThenCheck(c) ==
  /\ pc[c] = "checked"
  /\ \E day \in Days :
       /\ now(day)
       /\ TransactionsCreate(req[c].accountId, -req[c].amountCents, day,
                             Undefined, NoKey)
  /\ IF DailyLimitExceeded(loc[c].withdrawals, req[c].amountCents,
                           loc[c].account.dailyWithdrawalLimitCents)
     THEN /\ Fail(c, "DAILY_LIMIT_EXCEEDED")
          /\ MutexRelease(c, req[c].accountId, "done")
     ELSE /\ loc' = [loc EXCEPT ![c].tx = NextTransactionId]
          /\ pc' = [pc EXCEPT ![c] = "created"]
          /\ UNCHANGED <<locked, queue, res>>
  /\ UNCHANGED <<accounts, req, created, rowLock, rowVersion, map, dateNow, destroyed, detached>>

\* withdraw after `await sumWithdrawalsForDay`: the daily limit check, then
\* transactionsRepo.create with the time of a second read of the clock.
WithdrawCreateTx(c) ==
  /\ pc[c] = "checked"
  /\ IF DailyLimitExceeded(loc[c].withdrawals, req[c].amountCents,
                           loc[c].account.dailyWithdrawalLimitCents)
     THEN /\ Fail(c, "DAILY_LIMIT_EXCEEDED")
          /\ MutexRelease(c, req[c].accountId, "done")
          /\ UNCHANGED <<transactions, clockReads>>
     ELSE /\ \E day \in Days :
               /\ now(day)
               /\ TransactionsCreate(req[c].accountId, -req[c].amountCents, day,
                                     Undefined, NoKey)
          /\ loc' = [loc EXCEPT ![c].tx = NextTransactionId]
          /\ pc' = [pc EXCEPT ![c] = "created"]
          /\ UNCHANGED <<locked, queue, res>>
  /\ UNCHANGED <<accounts, req, created,
                 rowLock, rowVersion, map, dateNow, destroyed, detached>>

\* withdraw after `await create`: updateBalance with the balance read before.
WithdrawUpdateBalance(c) ==
  /\ pc[c] = "created" /\ req[c].op = "withdraw"
  /\ updateBalance(req[c].accountId,
                   loc[c].account.balanceCents - req[c].amountCents)
  /\ loc' = [loc EXCEPT ![c].account = accounts'[req[c].accountId]]
  /\ pc' = [pc EXCEPT ![c] = "updated"]
  /\ UNCHANGED <<transactions, locked, queue, req, res, created, clockReads,
                 rowLock, rowVersion, map, dateNow, destroyed, detached>>

\* blockAccount (activeFlag FALSE) and unblockAccount (TRUE), up to
\* `await this.accountsRepo.getById`.  No mutex is taken.
CallSetActive(c, activeFlag) ==
  /\ CanCall /\ c = NextCall
  /\ \E accountId \in TargetIds :
       /\ Issue(c, [NoRequest EXCEPT
                      !.op = IF activeFlag THEN "unblockAccount" ELSE "blockAccount",
                      !.accountId = accountId])
       /\ loc' = [loc EXCEPT ![c].account = accounts[accountId]]
  /\ pc' = [pc EXCEPT ![c] = "flagRead"]
  /\ UNCHANGED <<accounts, transactions, locked, queue, res, created, clockReads,
                 rowLock, rowVersion, map, dateNow, destroyed, detached>>

CallBlockAccount(c) == CallSetActive(c, FALSE)

CallUnblockAccount(c) == CallSetActive(c, TRUE)

\* After `await getById`: the guards, then setActiveFlag.
SetActiveFlagStep(c) ==
  /\ pc[c] = "flagRead"
  /\ LET activeFlag == (req[c].op = "unblockAccount")
     IN IF loc[c].account = NoAccount
        THEN /\ Fail(c, "NOT_FOUND")
             /\ pc' = [pc EXCEPT ![c] = "done"]
             /\ UNCHANGED accounts
        ELSE IF AlreadyInState(loc[c].account, activeFlag)
        THEN /\ Fail(c, IF activeFlag THEN "ALREADY_UNBLOCKED" ELSE "ALREADY_BLOCKED")
             /\ pc' = [pc EXCEPT ![c] = "done"]
             /\ UNCHANGED accounts
        ELSE /\ setActiveFlag(req[c].accountId, activeFlag)
             /\ loc' = [loc EXCEPT ![c] = NoLocal]
             /\ pc' = [pc EXCEPT ![c] = "flagSet"]
             /\ UNCHANGED res
  /\ UNCHANGED <<transactions, locked, queue, req, created, clockReads,
                 rowLock, rowVersion, map, dateNow, destroyed, detached>>

\* After `await setActiveFlag`: `return updated`.
SetActiveReturn(c) ==
  /\ pc[c] = "flagSet"
  /\ Return(c, [NoResult EXCEPT !.error = "ok"])
  /\ pc' = [pc EXCEPT ![c] = "done"]
  /\ UNCHANGED <<accounts, transactions, locked, queue, req, created, clockReads,
                 rowLock, rowVersion, map, dateNow, destroyed, detached>>

\* createAccount when `await this.transactionsRepo.create` rejects: the
\* error leaves createAccount; nothing is undone.
CreateOpeningEntryRejects(c) ==
  /\ pc[c] = "accountCreated"
  /\ req[c].amountCents > 0
  /\ Fail(c, "INTERNAL_ERROR")
  /\ pc' = [pc EXCEPT ![c] = "done"]
  /\ UNCHANGED <<accounts, transactions, locked, queue, req, created,
                 clockReads, rowLock, rowVersion, map, dateNow, destroyed, detached>>

\* deposit and withdraw when `await this.accountsRepo.updateBalance` rejects:
\* `finally { release() }` runs and the error leaves the call; nothing is
\* undone.
UpdateBalanceRejects(c) ==
  /\ pc[c] = "created" /\ req[c].op \in {"deposit", "withdraw"}
  /\ Fail(c, "INTERNAL_ERROR")
  /\ MutexRelease(c, req[c].accountId, "done")
  /\ UNCHANGED <<accounts, transactions, req, created, clockReads,
                 rowLock, rowVersion, map, dateNow, destroyed, detached>>

----
(***************************************************************************)
(* The keyed operations on the in-memory store: deposit and withdraw with  *)
(* an idempotency key, run by MemoryAccountsRepository.atomicDeposit and   *)
(* atomicWithdraw under the gate of the account, and account creation by   *)
(* createWithInitialBalance.                                               *)
(***************************************************************************)

\* findByIdempotencyKey: the first journal entry that carries the key.
RECURSIVE findByIdempotencyKey(_, _)
findByIdempotencyKey(txs, key) ==
  IF txs = <<>> THEN NoTransaction
  ELSE IF Head(txs).idempotencyKey = key THEN Head(txs)
  ELSE findByIdempotencyKey(Tail(txs), key)

\* A call may be made: a slot is free and fewer than MaxInFlight calls run.
CanCallKeyed == CanCall /\ Cardinality(InFlight) < MaxInFlight

\* The results of the calls that returned successfully with these arguments.
PriorResults(request) ==
  {<<res[d].transactionId, res[d].balanceCents>> :
     d \in {e \in DoneCalls : /\ req[e].op = request.op
                              /\ req[e].accountId = request.accountId
                              /\ req[e].amountCents = request.amountCents
                              /\ req[e].idempotencyKey = request.idempotencyKey
                              /\ res[e].error = "ok"}}

\* A deposit with the key of the request has returned successfully on another
\* account.
KeyCommittedElsewhere(request) ==
  \E d \in DoneCalls : /\ req[d].op = "deposit"
                       /\ req[d].idempotencyKey = request.idempotencyKey
                       /\ req[d].accountId # request.accountId
                       /\ res[d].error = "ok"

\* The createWithInitialBalance calls that have drawn their randomUUID() and
\* not stored the account yet: no later call draws the same id.
Allocated == {c \in Calls : pc[c] = "openingPushed"}

\* createAccount of the service, and createWithInitialBalance up to
\* `await this.transactionsRepo.create`: the opening entry is pushed before
\* the account is stored; without an initial balance the account is stored
\* and returned at once.
CallCreateWithInitialBalance(c) ==
  /\ CanCallKeyed /\ c = NextCall
  /\ \E initialBalanceCents \in KeyedInitialBalances, limit \in KeyedLimits,
        personKnown \in BOOLEAN, day \in KeyedDays :
       /\ Issue(c, [NoRequest EXCEPT !.op = "createAccount",
                                     !.amountCents = initialBalanceCents,
                                     !.dailyWithdrawalLimitCents = limit])
       /\ now(day)
       /\ IF ~personKnown
          THEN /\ Fail(c, "PERSON_NOT_FOUND")
               /\ pc' = [pc EXCEPT ![c] = "done"]
               /\ UNCHANGED <<accounts, transactions, created>>
          ELSE LET account ==
                     [accountId |-> NextAccountId + Cardinality(Allocated),
                      balanceCents |-> initialBalanceCents,
                      dailyWithdrawalLimitCents |-> limit,
                      activeFlag |-> TRUE]
               IN /\ account.accountId \in AccountIds
                  /\ IF initialBalanceCents > 0
                     THEN /\ TransactionsCreate(account.accountId,
                                                initialBalanceCents, day,
                                                initialBalanceCents, NoKey)
                          /\ loc' = [loc EXCEPT ![c].account = account]
                          /\ pc' = [pc EXCEPT ![c] = "openingPushed"]
                          /\ UNCHANGED <<accounts, created, res>>
                     ELSE /\ accounts' = [accounts EXCEPT ![account.accountId] = account]
                          /\ created' = [created EXCEPT ![account.accountId] = 0]
                          /\ Return(c, [NoResult EXCEPT !.error = "ok",
                                          !.accountId = account.accountId])
                          /\ pc' = [pc EXCEPT ![c] = "done"]
                          /\ UNCHANGED transactions
  /\ UNCHANGED <<locked, queue,
                 rowLock, rowVersion, map, dateNow, destroyed, detached>>

\* createWithInitialBalance after `await create`: `this.accounts.set`, and
\* the account is returned.
CreateSetAccount(c) ==
  /\ pc[c] = "openingPushed"
  /\ accounts' = [accounts EXCEPT ![loc[c].account.accountId] = loc[c].account]
  /\ created' = [created EXCEPT ![loc[c].account.accountId] =
                   loc[c].account.balanceCents]
  /\ Return(c, [NoResult EXCEPT !.error = "ok",
                  !.accountId = loc[c].account.accountId,
                  !.balanceCents = loc[c].account.balanceCents])
  /\ pc' = [pc EXCEPT ![c] = "done"]
  /\ UNCHANGED <<transactions, locked, queue, req, clockReads,
                 rowLock, rowVersion, map, dateNow, destroyed, detached>>

\* deposit and withdraw of the service with an idempotency key, up to the
\* acquisition of the gate of the account.
CallKeyed(c, op) ==
  /\ CanCallKeyed /\ c = NextCall
  /\ \E accountId \in TargetIds, amountCents \in KeyedAmounts,
        key \in {NoKey} \cup IdempotencyKeys :
       LET request == [NoRequest EXCEPT !.op = op, !.accountId = accountId,
                                        !.amountCents = amountCents,
                                        !.idempotencyKey = key]
       IN /\ Issue(c, [request EXCEPT
                         !.prior = IF key = NoKey THEN {}
                                   ELSE PriorResults(request),
                         !.conflict = key # NoKey /\ KeyCommittedElsewhere(request)])
          /\ MutexMapGet(accountId)
          /\ MutexLock(c, accountId)
  /\ UNCHANGED <<accounts, transactions, loc, res, created, clockReads,
                 rowLock, rowVersion, dateNow, destroyed, detached>>

CallKeyedDeposit(c) == CallKeyed(c, "deposit")

CallKeyedWithdraw(c) == CallKeyed(c, "withdraw")

NeverOverflows(balanceCents, amountCents) == FALSE

\* atomicDeposit: `newBalance > Number.MAX_SAFE_INTEGER`.
Overflows(balanceCents, amountCents) ==
  balanceCents + amountCents > MAX_SAFE_INTEGER

\* atomicDeposit and atomicWithdraw from `this.accounts.get(accountId)` to
\* their next await: the account is read and checked; a deposit pushes its
\* journal entry, a withdrawal computes the day's withdrawals.
AtomicApply(c, day) ==
  LET accountId == req[c].accountId
      account == accounts[accountId]
  IN IF account = NoAccount
     THEN /\ Fail(c, "NOT_FOUND")
          /\ MutexRelease(c, accountId, "done")
          /\ UNCHANGED transactions
     ELSE IF ~account.activeFlag
     THEN /\ Fail(c, "ACCOUNT_BLOCKED")
          /\ MutexRelease(c, accountId, "done")
          /\ UNCHANGED transactions
     ELSE IF req[c].op = "deposit"
             /\ Overflows(account.balanceCents, req[c].amountCents)
     THEN /\ Fail(c, "INVALID_AMOUNT")
          /\ MutexRelease(c, accountId, "done")
          /\ UNCHANGED transactions
     ELSE IF req[c].op = "deposit"
     THEN /\ TransactionsCreate(accountId, req[c].amountCents, day,
                                account.balanceCents + req[c].amountCents,
                                req[c].idempotencyKey)
          /\ loc' = [loc EXCEPT ![c] = [NoLocal EXCEPT !.account = account,
                                                      !.today = day,
                                                      !.tx = NextTransactionId]]
          /\ pc' = [pc EXCEPT ![c] = "pushed"]
          /\ UNCHANGED <<locked, queue, res>>
     ELSE IF InsufficientFunds(account.balanceCents, req[c].amountCents)
     THEN /\ Fail(c, "INSUFFICIENT_FUNDS")
          /\ MutexRelease(c, accountId, "done")
          /\ UNCHANGED transactions
     ELSE /\ loc' = [loc EXCEPT ![c] =
                       [NoLocal EXCEPT
                          !.account = account,
                          !.today = day,
                          !.withdrawals =
                             sumWithdrawalsForDay(transactions, accountId, day)]]
          /\ pc' = [pc EXCEPT ![c] = "summed"]
          /\ UNCHANGED <<transactions, locked, queue, res>>

\* After the gate is acquired the service reads the clock and calls
\* atomicDeposit or atomicWithdraw.  With a key the repository first calls
\* findByIdempotencyKey and awaits it; without one it goes on at once.
AtomicEnter(c) ==
  /\ pc[c] = "granted"
  /\ \E day \in KeyedDays :
       /\ now(day)
       /\ IF req[c].idempotencyKey # NoKey
          THEN /\ loc' = [loc EXCEPT ![c] =
                            [NoLocal EXCEPT
                               !.today = day,
                               !.existing =
                                  findByIdempotencyKey(transactions,
                                                       req[c].idempotencyKey)]]
               /\ pc' = [pc EXCEPT ![c] = "found"]
               /\ UNCHANGED <<transactions, locked, queue, res>>
          ELSE AtomicApply(c, day)
  /\ UNCHANGED <<accounts, req, created,
                 rowLock, rowVersion, map, dateNow, destroyed, detached>>

\* After `await findByIdempotencyKey`: an entry of the same account is
\* replayed, an entry of another account is an error, no entry lets the
\* operation go on.
AtomicResolve(c) ==
  /\ pc[c] = "found"
  /\ IF loc[c].existing # NoTransaction
     THEN IF loc[c].existing.accountId = req[c].accountId
          THEN /\ Return(c, [NoResult EXCEPT
                               !.error = "ok",
                               !.balanceCents = loc[c].existing.balanceAfter,
                               !.transactionId = loc[c].existing.transactionId])
               /\ MutexRelease(c, req[c].accountId, "done")
               /\ UNCHANGED transactions
          ELSE /\ Fail(c, "INVALID_AMOUNT")
               /\ MutexRelease(c, req[c].accountId, "done")
               /\ UNCHANGED transactions
     ELSE AtomicApply(c, loc[c].today)
  /\ UNCHANGED <<accounts, req, created, clockReads,
                 rowLock, rowVersion, map, dateNow, destroyed, detached>>

\* atomicWithdraw after `await sumWithdrawalsForDay`: the daily limit check,
\* the defensive check of the new balance, then the journal entry is pushed.
AtomicWithdrawCreate(c) ==
  /\ pc[c] = "summed"
  /\ LET newBalance == loc[c].account.balanceCents - req[c].amountCents
     IN IF DailyLimitExceeded(loc[c].withdrawals, req[c].amountCents,
                              loc[c].account.dailyWithdrawalLimitCents)
        THEN /\ Fail(c, "DAILY_LIMIT_EXCEEDED")
             /\ MutexRelease(c, req[c].accountId, "done")
             /\ UNCHANGED transactions
        ELSE IF newBalance < 0
        THEN /\ Fail(c, "INSUFFICIENT_FUNDS")
             /\ MutexRelease(c, req[c].accountId, "done")
             /\ UNCHANGED transactions
        ELSE /\ TransactionsCreate(req[c].accountId, -req[c].amountCents,
                                   loc[c].today, newBalance,
                                   req[c].idempotencyKey)
             /\ loc' = [loc EXCEPT ![c].tx = NextTransactionId]
             /\ pc' = [pc EXCEPT ![c] = "pushed"]
             /\ UNCHANGED <<locked, queue, res>>
  /\ UNCHANGED <<accounts, req, created, clockReads,
                 rowLock, rowVersion, map, dateNow, destroyed, detached>>

\* atomicDeposit and atomicWithdraw after `await create`: the account read
\* before is stored with the new balance, the result is returned and the
\* service releases the gate.
AtomicSetBalance(c) ==
  /\ pc[c] = "pushed"
  /\ LET newBalance ==
           IF req[c].op = "deposit"
           THEN loc[c].account.balanceCents + req[c].amountCents
           ELSE loc[c].account.balanceCents - req[c].amountCents
     IN /\ accounts' = [accounts EXCEPT ![req[c].accountId] =
                          [loc[c].account EXCEPT !.balanceCents = newBalance]]
        /\ Return(c, [NoResult EXCEPT !.error = "ok",
                        !.balanceCents = newBalance,
                        !.transactionId = loc[c].tx])
  /\ MutexRelease(c, req[c].accountId, "done")
  /\ UNCHANGED <<transactions, req, created, clockReads,
                 rowLock, rowVersion, map, dateNow, destroyed, detached>>

----
(***************************************************************************)
(* The keyed deposit on the PostgreSQL store                                *)
(* (src/infra/postgres/postgresAccountsRepo.ts).  `accounts` and            *)
(* `transactions` are the committed rows of the two tables; what a          *)
(* transaction has written and not committed lives in its call.  A          *)
(* SERIALIZABLE transaction takes its snapshot at its first query; a        *)
(* locked read waits for the holder of the row, and fails with 40001 when   *)
(* the row was updated by a transaction that committed after the snapshot.  *)
(***************************************************************************)

\* No error is retried.
NeverRetryable(code) == FALSE

AlwaysRetryable(code) == TRUE

\* isRetryableError: serialization_failure, deadlock_detected,
\* lock_not_available.
isRetryableError(code) == code \in {"40001", "40P01", "55P03"}

\* A call on the PostgreSQL store throws: the number of retries it made is
\* kept with its result.
PgFail(c, error) ==
  /\ res' = [res EXCEPT ![c] = [NoResult EXCEPT !.error = error,
                                                !.retries = loc[c].attemptNum]]
  /\ loc' = [loc EXCEPT ![c] = NoLocal]
  /\ pc' = [pc EXCEPT ![c] = "done"]

\* The catch block of withRetry: a retryable error is retried, after a
\* delay, with a new transaction, while attemptNum < MAX_RETRIES; any other
\* error is thrown to the caller.
withRetry(c, code, error) ==
  IF loc[c].attemptNum < MAX_RETRIES /\ isRetryableError(code)
  THEN /\ loc' = [loc EXCEPT ![c] =
                    [NoLocal EXCEPT !.attemptNum = loc[c].attemptNum + 1,
                                    !.today = loc[c].today]]
       /\ pc' = [pc EXCEPT ![c] = "begun"]
       /\ UNCHANGED res
  ELSE PgFail(c, error)

\* ROLLBACK: the row lock of the transaction, if it holds one, is released.
Rollback(c) ==
  rowLock' = [a \in AccountIds |-> IF rowLock[a] = c THEN 0 ELSE rowLock[a]]

\* The calls whose transaction has inserted an entry with the key and has
\* not ended.
PendingInserts(key) ==
  {d \in Calls : pc[d] \in {"inserted", "updated"} /\ req[d].idempotencyKey = key}

\* SELECT ... FROM transactions WHERE idempotency_key = $1 LIMIT 1: the
\* committed entry with the key, which the UNIQUE constraint makes the only
\* one.
SelectByIdempotencyKey(key) ==
  LET rows == {i \in 1..Len(transactions) :
                 transactions[i].idempotencyKey = key}
  IN IF rows = {} THEN NoTransaction
     ELSE transactions[CHOOSE i \in rows : TRUE]

\* The calls that are creating an account.
Creating == {d \in Calls : pc[d] = "creating"}

\* createWithInitialBalance(input, initialBalanceCents, transactionDate) up
\* to COMMIT: the account row and the opening entry are inserted in one
\* transaction; an unknown person violates the foreign key (23503).
PgCallCreateOf(c, balances) ==
  /\ CanCallKeyed /\ c = NextCall
  /\ \E initialBalanceCents \in balances, limit \in KeyedLimits,
        personKnown \in BOOLEAN, transactionDate \in KeyedDays :
       /\ Issue(c, [NoRequest EXCEPT !.op = "createAccount",
                                     !.amountCents = initialBalanceCents,
                                     !.dailyWithdrawalLimitCents = limit])
       /\ IF ~personKnown
          THEN PgFail(c, "PERSON_NOT_FOUND")
          ELSE /\ NextAccountId + Cardinality(Creating) \in AccountIds
               /\ loc' = [loc EXCEPT ![c] =
                            [NoLocal EXCEPT
                               !.today = transactionDate,
                               !.account =
                                 [accountId |-> Undefined,
                                  balanceCents |-> initialBalanceCents,
                                  dailyWithdrawalLimitCents |-> limit,
                                  activeFlag |-> TRUE]]]
               /\ pc' = [pc EXCEPT ![c] = "creating"]
               /\ UNCHANGED res
  /\ UNCHANGED <<accounts, transactions, locked, queue, created, clockReads,
                 rowLock, rowVersion, map, dateNow, destroyed, detached>>

PgCallCreate(c) == PgCallCreateOf(c, KeyedInitialBalances)

\* createWithInitialBalance, COMMIT: the account and its opening entry
\* become visible together, and the account is returned.
PgCreateCommit(c) ==
  /\ pc[c] = "creating"
  /\ LET account == [loc[c].account EXCEPT !.accountId = NextAccountId]
     IN /\ accounts' = [accounts EXCEPT ![account.accountId] = account]
        /\ created' = [created EXCEPT ![account.accountId] = account.balanceCents]
        /\ IF account.balanceCents > 0
           THEN TransactionsCreate(account.accountId, account.balanceCents,
                                   loc[c].today, account.balanceCents, NoKey)
           ELSE UNCHANGED transactions
        /\ Return(c, [NoResult EXCEPT !.error = "ok",
                        !.accountId = account.accountId,
                        !.balanceCents = account.balanceCents])
        /\ pc' = [pc EXCEPT ![c] = "done"]
  /\ UNCHANGED <<locked, queue, req, clockReads, rowLock, rowVersion, map, dateNow, destroyed, detached>>

\* atomicDeposit(accountId, amountCents, transactionDate, idempotencyKey) up
\* to BEGIN ISOLATION LEVEL SERIALIZABLE, on the first attempt of withRetry.
PgCallDepositOn(c, ids) ==
  /\ CanCallKeyed /\ c = NextCall
  /\ \E accountId \in ids, amountCents \in KeyedAmounts,
        key \in {NoKey} \cup IdempotencyKeys, transactionDate \in KeyedDays :
       /\ Issue(c, [NoRequest EXCEPT !.op = "deposit", !.accountId = accountId,
                                     !.amountCents = amountCents,
                                     !.idempotencyKey = key])
       /\ loc' = [loc EXCEPT ![c] = [NoLocal EXCEPT !.today = transactionDate]]
  /\ pc' = [pc EXCEPT ![c] = "begun"]
  /\ UNCHANGED <<accounts, transactions, locked, queue, res, created,
                 clockReads, rowLock, rowVersion, map, dateNow, destroyed, detached>>

PgCallDeposit(c) == PgCallDepositOn(c, TargetIds)

\* atomicDeposit, the SELECT by idempotency key: the first query of the
\* transaction; it sees the committed journal.
PgSelectKey(c) ==
  /\ pc[c] = "begun"
  /\ req[c].idempotencyKey # NoKey
  /\ loc' = [loc EXCEPT
               ![c].existing = SelectByIdempotencyKey(req[c].idempotencyKey),
               ![c].snapshot = rowVersion[req[c].accountId]]
  /\ pc' = [pc EXCEPT ![c] = "keyRead"]
  /\ UNCHANGED <<accounts, transactions, locked, queue, req, res, created,
                 clockReads, rowLock, rowVersion, map, dateNow, destroyed, detached>>

\* atomicDeposit after the SELECT by key: an entry of the same account is
\* replayed, an entry of another account is rejected; without an entry the
\* account row is asked for.
PgResolveKey(c) ==
  /\ pc[c] = "keyRead"
  /\ LET existingTx == loc[c].existing
     IN IF existingTx # NoTransaction
        THEN IF existingTx.accountId = req[c].accountId
             THEN /\ Return(c, [NoResult EXCEPT
                                  !.error = "ok",
                                  !.balanceCents = existingTx.balanceAfter,
                                  !.transactionId = existingTx.transactionId,
                                  !.retries = loc[c].attemptNum])
                  /\ pc' = [pc EXCEPT ![c] = "done"]
             ELSE withRetry(c, "none", "INVALID_AMOUNT")
        ELSE /\ pc' = [pc EXCEPT ![c] = "locking"]
             /\ UNCHANGED <<loc, res>>
  /\ UNCHANGED <<accounts, transactions, locked, queue, req, created,
                 clockReads, rowLock, rowVersion, map, dateNow, destroyed, detached>>

\* atomicDeposit, SELECT ... FOR UPDATE: it waits while another transaction
\* holds the row; it fails with 40001 when the row was updated after the
\* snapshot of the transaction, and the catch block rolls back.
PgSelectForUpdate(c) ==
  LET accountId == req[c].accountId
      taken == IF pc[c] = "begun" THEN rowVersion[accountId]
               ELSE loc[c].snapshot
  IN /\ \/ pc[c] = "locking"
        \/ pc[c] = "begun" /\ req[c].idempotencyKey = NoKey
     /\ rowLock[accountId] = 0
     /\ IF rowVersion[accountId] # taken
        THEN /\ withRetry(c, "40001", "INTERNAL_ERROR")
             /\ UNCHANGED rowLock
        ELSE /\ rowLock' = [rowLock EXCEPT ![accountId] =
                              IF accounts[accountId] = NoAccount THEN 0 ELSE c]
             /\ loc' = [loc EXCEPT ![c].account = accounts[accountId],
                                   ![c].snapshot = taken]
             /\ pc' = [pc EXCEPT ![c] = "rowLocked"]
             /\ UNCHANGED res
     /\ UNCHANGED <<accounts, transactions, locked, queue, req, created,
                    clockReads, rowVersion, map, dateNow, destroyed, detached>>

\* atomicDeposit after the locked read: the account is checked and the
\* journal entry is inserted.  The insert waits for a transaction that has
\* inserted the same key; a committed entry with the key violates the
\* UNIQUE constraint (23505, or 40001 when the conflict is with a
\* transaction concurrent with this one).
PgInsert(c) ==
  /\ pc[c] = "rowLocked"
  /\ LET account == loc[c].account
         key == req[c].idempotencyKey
         newBalance == account.balanceCents + req[c].amountCents
     IN IF account = NoAccount
        THEN /\ withRetry(c, "none", "NOT_FOUND")
             /\ Rollback(c)
        ELSE IF ~account.activeFlag
        THEN /\ withRetry(c, "none", "ACCOUNT_BLOCKED")
             /\ Rollback(c)
        ELSE IF Overflows(account.balanceCents, req[c].amountCents)
        THEN /\ withRetry(c, "none", "INVALID_AMOUNT")
             /\ Rollback(c)
        ELSE IF newBalance < 0
        THEN /\ withRetry(c, "none", "INVALID_AMOUNT")
             /\ Rollback(c)
        ELSE /\ key # NoKey => PendingInserts(key) = {}
             /\ IF key # NoKey /\ SelectByIdempotencyKey(key) # NoTransaction
                THEN /\ \E code \in {"23505", "40001"} :
                          withRetry(c, code, "INTERNAL_ERROR")
                     /\ Rollback(c)
                ELSE /\ pc' = [pc EXCEPT ![c] = "inserted"]
                     /\ UNCHANGED <<loc, res, rowLock>>
  /\ UNCHANGED <<accounts, transactions, locked, queue, req, created,
                 clockReads, rowVersion, map, dateNow, destroyed, detached>>

\* atomicDeposit, UPDATE account SET balance_cents: written in the
\* transaction, not yet visible.
PgUpdate(c) ==
  /\ pc[c] = "inserted"
  /\ pc' = [pc EXCEPT ![c] = "updated"]
  /\ UNCHANGED <<accounts, transactions, locked, queue, req, loc, res,
                 created, clockReads, rowLock, rowVersion, map, dateNow, destroyed, detached>>

\* A COMMIT whose success is taken for a retryable failure: the entry and
\* the balance are written and the call starts a new attempt.
PgCommitThenRetry(c) ==
  /\ pc[c] = "updated"
  /\ loc[c].attemptNum < MAX_RETRIES
  /\ LET accountId == req[c].accountId
         newBalance == loc[c].account.balanceCents + req[c].amountCents
     IN /\ TransactionsCreate(accountId, req[c].amountCents, loc[c].today,
                              newBalance, NoKey)
        /\ updateBalance(accountId, newBalance)
        /\ rowVersion' = [rowVersion EXCEPT ![accountId] = @ + 1]
        /\ Rollback(c)
        /\ loc' = [loc EXCEPT ![c] =
                     [NoLocal EXCEPT !.attemptNum = loc[c].attemptNum + 1,
                                     !.today = loc[c].today]]
        /\ pc' = [pc EXCEPT ![c] = "begun"]
  /\ UNCHANGED <<locked, queue, req, res, created, clockReads, map, dateNow, destroyed, detached>>

\* atomicDeposit, COMMIT: the entry and the balance become visible together,
\* the row lock is released, and the result is returned.
PgCommit(c) ==
  /\ pc[c] = "updated"
  /\ LET accountId == req[c].accountId
         newBalance == loc[c].account.balanceCents + req[c].amountCents
     IN /\ TransactionsCreate(accountId, req[c].amountCents, loc[c].today,
                              newBalance, req[c].idempotencyKey)
        /\ updateBalance(accountId, newBalance)
        /\ rowVersion' = [rowVersion EXCEPT ![accountId] = @ + 1]
        /\ Rollback(c)
        /\ Return(c, [NoResult EXCEPT !.error = "ok",
                        !.balanceCents = newBalance,
                        !.transactionId = NextTransactionId,
                        !.retries = loc[c].attemptNum])
        /\ pc' = [pc EXCEPT ![c] = "done"]
  /\ UNCHANGED <<locked, queue, req, created, clockReads, map, dateNow, destroyed, detached>>

----
Init ==
  /\ accounts = [a \in AccountIds |-> NoAccount]
  /\ transactions = <<>>
  /\ locked = [k \in MutexInstances |-> FALSE]
  /\ queue = [k \in MutexInstances |-> <<>>]
  /\ pc = [c \in 1..MaxCalls |-> "idle"]
  /\ req = [c \in 1..MaxCalls |-> NoRequest]
  /\ loc = [c \in 1..MaxCalls |-> NoLocal]
  /\ res = [c \in 1..MaxCalls |-> NoResult]
  /\ created = [a \in AccountIds |-> 0]
  /\ clockReads = {}
  /\ rowLock = [a \in AccountIds |-> 0]
  /\ rowVersion = [a \in AccountIds |-> 0]
  /\ map = [k \in MutexKeys |-> Undefined]
  /\ dateNow = 0
  /\ destroyed = FALSE
  /\ detached = {}

Next ==
  \/ \E c \in Calls : CallCreateAccount(c)
  \/ \E c \in Calls : CreateOpeningEntry(c)
  \/ \E c \in Calls : CreateAccountReturn(c)
  \/ \E c \in Calls : CallDeposit(c)
  \/ \E c \in Calls : CallWithdraw(c)
  \/ \E c \in Calls : MutationGetById(c)
  \/ \E c \in Calls : DepositCreateTx(c)
  \/ \E c \in Calls : DepositUpdateBalance(c)
  \/ \E c \in Calls : WithdrawCheck(c)
  \/ \E c \in Calls : WithdrawCreateTx(c)
  \/ \E c \in Calls : WithdrawUpdateBalance(c)
  \/ \E c \in Calls : MutationReturn(c)
  \/ \E c \in Calls : CallBlockAccount(c)
  \/ \E c \in Calls : CallUnblockAccount(c)
  \/ \E c \in Calls : SetActiveFlagStep(c)
  \/ \E c \in Calls : SetActiveReturn(c)

Spec == Init /\ [][Next]_vars

InitKeyed ==
  /\ accounts = [a \in AccountIds |-> NoAccount]
  /\ transactions = <<>>
  /\ locked = [k \in MutexInstances |-> FALSE]
  /\ queue = [k \in MutexInstances |-> <<>>]
  /\ pc = [c \in 1..MaxKeyedCalls |-> "idle"]
  /\ req = [c \in 1..MaxKeyedCalls |-> NoRequest]
  /\ loc = [c \in 1..MaxKeyedCalls |-> NoLocal]
  /\ res = [c \in 1..MaxKeyedCalls |-> NoResult]
  /\ created = [a \in AccountIds |-> 0]
  /\ clockReads = {}
  /\ rowLock = [a \in AccountIds |-> 0]
  /\ rowVersion = [a \in AccountIds |-> 0]
  /\ map = [k \in MutexKeys |-> Undefined]
  /\ dateNow = 0
  /\ destroyed = FALSE
  /\ detached = {}

NextKeyed ==
  \/ \E c \in Calls : CallCreateWithInitialBalance(c)
  \/ \E c \in Calls : CreateSetAccount(c)
  \/ \E c \in Calls : CallKeyedDeposit(c)
  \/ \E c \in Calls : CallKeyedWithdraw(c)
  \/ \E c \in Calls : AtomicEnter(c)
  \/ \E c \in Calls : AtomicResolve(c)
  \/ \E c \in Calls : AtomicWithdrawCreate(c)
  \/ \E c \in Calls : AtomicSetBalance(c)

SpecKeyed == InitKeyed /\ [][NextKeyed]_vars

InitPg ==
  /\ accounts = [a \in AccountIds |-> NoAccount]
  /\ transactions = <<>>
  /\ locked = [k \in MutexInstances |-> FALSE]
  /\ queue = [k \in MutexInstances |-> <<>>]
  /\ pc = [c \in 1..MaxPgCalls |-> "idle"]
  /\ req = [c \in 1..MaxPgCalls |-> NoRequest]
  /\ loc = [c \in 1..MaxPgCalls |-> NoLocal]
  /\ res = [c \in 1..MaxPgCalls |-> NoResult]
  /\ created = [a \in AccountIds |-> 0]
  /\ clockReads = {}
  /\ rowLock = [a \in AccountIds |-> 0]
  /\ rowVersion = [a \in AccountIds |-> 0]
  /\ map = [k \in MutexKeys |-> Undefined]
  /\ dateNow = 0
  /\ destroyed = FALSE
  /\ detached = {}

NextPg ==
  \/ \E c \in Calls : PgCallCreate(c)
  \/ \E c \in Calls : PgCreateCommit(c)
  \/ \E c \in Calls : PgCallDeposit(c)
  \/ \E c \in Calls : PgSelectKey(c)
  \/ \E c \in Calls : PgResolveKey(c)
  \/ \E c \in Calls : PgSelectForUpdate(c)
  \/ \E c \in Calls : PgInsert(c)
  \/ \E c \in Calls : PgUpdate(c)
  \/ \E c \in Calls : PgCommit(c)

SpecPg == InitPg /\ [][NextPg]_vars

\* The runs of the PostgreSQL store in which one account is created, for a
\* known person, deposits are made on any account id, used or not, and at
\* most MaxRetryInFlight calls are in flight.
Retrying ==
  /\ Cardinality({c \in Calls : req[c].op = "createAccount"}) <= 1
  /\ \A c \in Calls : res[c].error # "PERSON_NOT_FOUND"
  /\ Cardinality(InFlight) <= MaxRetryInFlight

InitRetry ==
  /\ accounts = [a \in AccountIds |-> NoAccount]
  /\ transactions = <<>>
  /\ locked = [k \in MutexInstances |-> FALSE]
  /\ queue = [k \in MutexInstances |-> <<>>]
  /\ pc = [c \in 1..MaxRetryCalls |-> "idle"]
  /\ req = [c \in 1..MaxRetryCalls |-> NoRequest]
  /\ loc = [c \in 1..MaxRetryCalls |-> NoLocal]
  /\ res = [c \in 1..MaxRetryCalls |-> NoResult]
  /\ created = [a \in AccountIds |-> 0]
  /\ clockReads = {}
  /\ rowLock = [a \in AccountIds |-> 0]
  /\ rowVersion = [a \in AccountIds |-> 0]
  /\ map = [k \in MutexKeys |-> Undefined]
  /\ dateNow = 0
  /\ destroyed = FALSE
  /\ detached = {}

NextRetry ==
  \/ \E c \in Calls : PgCallCreate(c) /\ Retrying'
  \/ \E c \in Calls : PgCreateCommit(c) /\ Retrying'
  \/ \E c \in Calls : PgCallDepositOn(c, AccountIds) /\ Retrying'
  \/ \E c \in Calls : PgSelectKey(c) /\ Retrying'
  \/ \E c \in Calls : PgResolveKey(c) /\ Retrying'
  \/ \E c \in Calls : PgSelectForUpdate(c) /\ Retrying'
  \/ \E c \in Calls : PgInsert(c) /\ Retrying'
  \/ \E c \in Calls : PgUpdate(c) /\ Retrying'
  \/ \E c \in Calls : PgCommit(c) /\ Retrying'

SpecRetry == InitRetry /\ [][NextRetry]_vars

\* The balances one or two cents below the largest safe one.
NearMaxBalances == {MAX_SAFE_INTEGER - 2, MAX_SAFE_INTEGER - 1}

\* The runs of the PostgreSQL store in which one account is created, for a
\* known person, with a balance near the largest safe one, deposits of one
\* cent are made on it, and at most MaxOverflowInFlight calls are in flight.
NearOverflow ==
  /\ Cardinality({c \in Calls : req[c].op = "createAccount"}) <= 1
  /\ \A c \in Calls : res[c].error # "PERSON_NOT_FOUND"
  /\ Cardinality(InFlight) <= MaxOverflowInFlight

InitOverflow ==
  /\ accounts = [a \in AccountIds |-> NoAccount]
  /\ transactions = <<>>
  /\ locked = [k \in MutexInstances |-> FALSE]
  /\ queue = [k \in MutexInstances |-> <<>>]
  /\ pc = [c \in 1..MaxOverflowCalls |-> "idle"]
  /\ req = [c \in 1..MaxOverflowCalls |-> NoRequest]
  /\ loc = [c \in 1..MaxOverflowCalls |-> NoLocal]
  /\ res = [c \in 1..MaxOverflowCalls |-> NoResult]
  /\ created = [a \in AccountIds |-> 0]
  /\ clockReads = {}
  /\ rowLock = [a \in AccountIds |-> 0]
  /\ rowVersion = [a \in AccountIds |-> 0]
  /\ map = [k \in MutexKeys |-> Undefined]
  /\ dateNow = 0
  /\ destroyed = FALSE
  /\ detached = {}

NextOverflow ==
  \/ \E c \in Calls : PgCallCreateOf(c, NearMaxBalances) /\ NearOverflow'
  \/ \E c \in Calls : PgCreateCommit(c) /\ NearOverflow'
  \/ \E c \in Calls : PgCallDeposit(c) /\ NearOverflow'
  \/ \E c \in Calls : PgSelectKey(c) /\ NearOverflow'
  \/ \E c \in Calls : PgResolveKey(c) /\ NearOverflow'
  \/ \E c \in Calls : PgSelectForUpdate(c) /\ NearOverflow'
  \/ \E c \in Calls : PgInsert(c) /\ NearOverflow'
  \/ \E c \in Calls : PgUpdate(c) /\ NearOverflow'
  \/ \E c \in Calls : PgCommit(c) /\ NearOverflow'

SpecOverflow == InitOverflow /\ [][NextOverflow]_vars

\* The runs of the service in which the accounts are opened with 3 cents and
\* a daily limit of 1, the movements are of 1 or 2 cents, the clock is read on either day, and the
\* calls are made one after the other.
Daily ==
  /\ \A c \in Calls :
       /\ req[c].op = "createAccount" =>
            /\ req[c].amountCents = 3
            /\ req[c].dailyWithdrawalLimitCents = 1
       /\ req[c].op \in {"deposit", "withdraw"} => req[c].amountCents \in {1, 2}
  /\ Cardinality(InFlight) <= MaxDailyInFlight

InitDaily ==
  /\ accounts = [a \in AccountIds |-> NoAccount]
  /\ transactions = <<>>
  /\ locked = [k \in MutexInstances |-> FALSE]
  /\ queue = [k \in MutexInstances |-> <<>>]
  /\ pc = [c \in 1..MaxDailyCalls |-> "idle"]
  /\ req = [c \in 1..MaxDailyCalls |-> NoRequest]
  /\ loc = [c \in 1..MaxDailyCalls |-> NoLocal]
  /\ res = [c \in 1..MaxDailyCalls |-> NoResult]
  /\ created = [a \in AccountIds |-> 0]
  /\ clockReads = {}
  /\ rowLock = [a \in AccountIds |-> 0]
  /\ rowVersion = [a \in AccountIds |-> 0]
  /\ map = [k \in MutexKeys |-> Undefined]
  /\ dateNow = 0
  /\ destroyed = FALSE
  /\ detached = {}

NextDaily ==
  \/ \E c \in Calls : CallCreateAccount(c) /\ Daily'
  \/ \E c \in Calls : CreateOpeningEntry(c) /\ Daily'
  \/ \E c \in Calls : CreateAccountReturn(c) /\ Daily'
  \/ \E c \in Calls : CallDeposit(c) /\ Daily'
  \/ \E c \in Calls : CallWithdraw(c) /\ Daily'
  \/ \E c \in Calls : MutationGetById(c) /\ Daily'
  \/ \E c \in Calls : DepositCreateTx(c) /\ Daily'
  \/ \E c \in Calls : DepositUpdateBalance(c) /\ Daily'
  \/ \E c \in Calls : WithdrawCheck(c) /\ Daily'
  \/ \E c \in Calls : WithdrawCreateTx(c) /\ Daily'
  \/ \E c \in Calls : WithdrawUpdateBalance(c) /\ Daily'
  \/ \E c \in Calls : MutationReturn(c) /\ Daily'

SpecDaily == InitDaily /\ [][NextDaily]_vars

\* atomicDeposit and atomicWithdraw called on the store itself, without an
\* idempotency key, by a caller that holds no mutex: the call is at the
\* entry of the method and the mutex of the account is left alone.
CallStore(c, op) ==
  /\ CanCallKeyed /\ c = NextCall
  /\ \E accountId \in TargetIds, amountCents \in KeyedAmounts :
       Issue(c, [NoRequest EXCEPT !.op = op, !.accountId = accountId,
                                  !.amountCents = amountCents])
  /\ pc' = [pc EXCEPT ![c] = "granted"]
  /\ UNCHANGED <<accounts, transactions, locked, queue, loc, res, created,
                 clockReads, rowLock, rowVersion, map, dateNow, destroyed, detached>>

CallStoreDeposit(c) == CallStore(c, "deposit")

CallStoreWithdraw(c) == CallStore(c, "withdraw")

InitStore ==
  /\ accounts = [a \in AccountIds |-> NoAccount]
  /\ transactions = <<>>
  /\ locked = [k \in MutexInstances |-> FALSE]
  /\ queue = [k \in MutexInstances |-> <<>>]
  /\ pc = [c \in 1..MaxStoreCalls |-> "idle"]
  /\ req = [c \in 1..MaxStoreCalls |-> NoRequest]
  /\ loc = [c \in 1..MaxStoreCalls |-> NoLocal]
  /\ res = [c \in 1..MaxStoreCalls |-> NoResult]
  /\ created = [a \in AccountIds |-> 0]
  /\ clockReads = {}
  /\ rowLock = [a \in AccountIds |-> 0]
  /\ rowVersion = [a \in AccountIds |-> 0]
  /\ map = [k \in MutexKeys |-> Undefined]
  /\ dateNow = 0
  /\ destroyed = FALSE
  /\ detached = {}

NextStore ==
  \/ \E c \in Calls : CallCreateWithInitialBalance(c)
  \/ \E c \in Calls : CreateSetAccount(c)
  \/ \E c \in Calls : CallStoreDeposit(c)
  \/ \E c \in Calls : CallStoreWithdraw(c)
  \/ \E c \in Calls : AtomicEnter(c)
  \/ \E c \in Calls : AtomicWithdrawCreate(c)
  \/ \E c \in Calls : AtomicSetBalance(c)

SpecStore == InitStore /\ [][NextStore]_vars

\* The keyed deposits and withdrawals on the in-memory store together with
\* blockAccount and unblockAccount, which take no mutex.
InitGuard ==
  /\ accounts = [a \in AccountIds |-> NoAccount]
  /\ transactions = <<>>
  /\ locked = [k \in MutexInstances |-> FALSE]
  /\ queue = [k \in MutexInstances |-> <<>>]
  /\ pc = [c \in 1..MaxGuardCalls |-> "idle"]
  /\ req = [c \in 1..MaxGuardCalls |-> NoRequest]
  /\ loc = [c \in 1..MaxGuardCalls |-> NoLocal]
  /\ res = [c \in 1..MaxGuardCalls |-> NoResult]
  /\ created = [a \in AccountIds |-> 0]
  /\ clockReads = {}
  /\ rowLock = [a \in AccountIds |-> 0]
  /\ rowVersion = [a \in AccountIds |-> 0]
  /\ map = [k \in MutexKeys |-> Undefined]
  /\ dateNow = 0
  /\ destroyed = FALSE
  /\ detached = {}

NextGuard ==
  \/ \E c \in Calls : CallCreateWithInitialBalance(c)
  \/ \E c \in Calls : CreateSetAccount(c)
  \/ \E c \in Calls : CallKeyedDeposit(c)
  \/ \E c \in Calls : CallKeyedWithdraw(c)
  \/ \E c \in Calls : AtomicEnter(c)
  \/ \E c \in Calls : AtomicResolve(c)
  \/ \E c \in Calls : AtomicWithdrawCreate(c)
  \/ \E c \in Calls : AtomicSetBalance(c)
  \/ \E c \in Calls : CallBlockAccount(c)
  \/ \E c \in Calls : CallUnblockAccount(c)
  \/ \E c \in Calls : SetActiveFlagStep(c)
  \/ \E c \in Calls : SetActiveReturn(c)

SpecGuard == InitGuard /\ [][NextGuard]_vars

\* The runs of the service in which one account is created, with balance 3
\* and limit 2, every movement is of one cent, the clock stays on day 1 and
\* at most MaxBlockInFlight calls are in flight.
OneAccount ==
  /\ Cardinality({c \in Calls : req[c].op = "createAccount"}) <= 1
  /\ \A c \in Calls :
       /\ req[c].op = "createAccount" =>
            req[c].amountCents = 3 /\ req[c].dailyWithdrawalLimitCents = 2
       /\ req[c].op \in {"deposit", "withdraw"} => req[c].amountCents = 1
  /\ clockReads \subseteq {1}
  /\ Cardinality(InFlight) <= MaxBlockInFlight

InitBlock ==
  /\ accounts = [a \in AccountIds |-> NoAccount]
  /\ transactions = <<>>
  /\ locked = [k \in MutexInstances |-> FALSE]
  /\ queue = [k \in MutexInstances |-> <<>>]
  /\ pc = [c \in 1..MaxBlockCalls |-> "idle"]
  /\ req = [c \in 1..MaxBlockCalls |-> NoRequest]
  /\ loc = [c \in 1..MaxBlockCalls |-> NoLocal]
  /\ res = [c \in 1..MaxBlockCalls |-> NoResult]
  /\ created = [a \in AccountIds |-> 0]
  /\ clockReads = {}
  /\ rowLock = [a \in AccountIds |-> 0]
  /\ rowVersion = [a \in AccountIds |-> 0]
  /\ map = [k \in MutexKeys |-> Undefined]
  /\ dateNow = 0
  /\ destroyed = FALSE
  /\ detached = {}

NextBlock ==
  \/ \E c \in Calls : CallCreateAccount(c) /\ OneAccount'
  \/ \E c \in Calls : CreateOpeningEntry(c) /\ OneAccount'
  \/ \E c \in Calls : CreateAccountReturn(c) /\ OneAccount'
  \/ \E c \in Calls : CallDeposit(c) /\ OneAccount'
  \/ \E c \in Calls : CallWithdraw(c) /\ OneAccount'
  \/ \E c \in Calls : MutationGetById(c) /\ OneAccount'
  \/ \E c \in Calls : DepositCreateTx(c) /\ OneAccount'
  \/ \E c \in Calls : DepositUpdateBalance(c) /\ OneAccount'
  \/ \E c \in Calls : WithdrawCheck(c) /\ OneAccount'
  \/ \E c \in Calls : WithdrawCreateTx(c) /\ OneAccount'
  \/ \E c \in Calls : WithdrawUpdateBalance(c) /\ OneAccount'
  \/ \E c \in Calls : MutationReturn(c) /\ OneAccount'
  \/ \E c \in Calls : CallBlockAccount(c) /\ OneAccount'
  \/ \E c \in Calls : CallUnblockAccount(c) /\ OneAccount'
  \/ \E c \in Calls : SetActiveFlagStep(c) /\ OneAccount'
  \/ \E c \in Calls : SetActiveReturn(c) /\ OneAccount'

SpecBlock == InitBlock /\ [][NextBlock]_vars

\* The same runs, with repositories whose writes may reject.
NextFault ==
  \/ NextBlock
  \/ \E c \in Calls : CreateOpeningEntryRejects(c) /\ OneAccount'
  \/ \E c \in Calls : UpdateBalanceRejects(c) /\ OneAccount'

SpecFault == InitBlock /\ [][NextFault]_vars

\* The runs of the service in which one account is created, with balance 0
\* or 3 and limit 2, movements are of zero or one cent on any account id,
\* used or not, the clock stays on day 1 and at most MaxRefuseInFlight calls
\* are in flight.
Refusals ==
  /\ Cardinality({c \in Calls : req[c].op = "createAccount"}) <= 1
  /\ \A c \in Calls :
       /\ req[c].op = "createAccount" =>
            /\ req[c].amountCents \in {0, 3}
            /\ req[c].dailyWithdrawalLimitCents = 2
       /\ req[c].op \in {"deposit", "withdraw"} => req[c].amountCents \in {0, 1}
  /\ clockReads \subseteq {1}
  /\ Cardinality(InFlight) <= MaxRefuseInFlight

InitRefuse ==
  /\ accounts = [a \in AccountIds |-> NoAccount]
  /\ transactions = <<>>
  /\ locked = [k \in MutexInstances |-> FALSE]
  /\ queue = [k \in MutexInstances |-> <<>>]
  /\ pc = [c \in 1..MaxRefuseCalls |-> "idle"]
  /\ req = [c \in 1..MaxRefuseCalls |-> NoRequest]
  /\ loc = [c \in 1..MaxRefuseCalls |-> NoLocal]
  /\ res = [c \in 1..MaxRefuseCalls |-> NoResult]
  /\ created = [a \in AccountIds |-> 0]
  /\ clockReads = {}
  /\ rowLock = [a \in AccountIds |-> 0]
  /\ rowVersion = [a \in AccountIds |-> 0]
  /\ map = [k \in MutexKeys |-> Undefined]
  /\ dateNow = 0
  /\ destroyed = FALSE
  /\ detached = {}

NextRefuse ==
  \/ \E c \in Calls : CallCreateAccount(c) /\ Refusals'
  \/ \E c \in Calls : CreateOpeningEntry(c) /\ Refusals'
  \/ \E c \in Calls : CreateAccountReturn(c) /\ Refusals'
  \/ \E c \in Calls : CallMutationOn(c, "deposit", AccountIds) /\ Refusals'
  \/ \E c \in Calls : CallMutationOn(c, "withdraw", AccountIds) /\ Refusals'
  \/ \E c \in Calls : MutationGetById(c) /\ Refusals'
  \/ \E c \in Calls : DepositCreateTx(c) /\ Refusals'
  \/ \E c \in Calls : DepositUpdateBalance(c) /\ Refusals'
  \/ \E c \in Calls : WithdrawCheck(c) /\ Refusals'
  \/ \E c \in Calls : WithdrawCreateTx(c) /\ Refusals'
  \/ \E c \in Calls : WithdrawUpdateBalance(c) /\ Refusals'
  \/ \E c \in Calls : MutationReturn(c) /\ Refusals'
  \/ \E c \in Calls : CallBlockAccount(c) /\ Refusals'
  \/ \E c \in Calls : SetActiveFlagStep(c) /\ Refusals'
  \/ \E c \in Calls : SetActiveReturn(c) /\ Refusals'

SpecRefuse == InitRefuse /\ [][NextRefuse]_vars

\* The runs of the service in which deposits and withdrawals of one cent
\* contend for the mutexes: at most one account is created, with balance 3
\* and limit 2, movements are made on any account id, the clock stays on
\* day 1 and at most MaxMutexInFlight calls are in flight.
Contention ==
  /\ Cardinality({c \in Calls : req[c].op = "createAccount"}) <= 1
  /\ \A c \in Calls :
       /\ req[c].op = "createAccount" =>
            req[c].amountCents = 3 /\ req[c].dailyWithdrawalLimitCents = 2
       /\ req[c].op \in {"deposit", "withdraw"} => req[c].amountCents = 1
  /\ clockReads \subseteq {1}
  /\ Cardinality(InFlight) <= MaxMutexInFlight

InitMutex ==
  /\ accounts = [a \in AccountIds |-> NoAccount]
  /\ transactions = <<>>
  /\ locked = [k \in MutexInstances |-> FALSE]
  /\ queue = [k \in MutexInstances |-> <<>>]
  /\ pc = [c \in 1..MaxMutexCalls |-> "idle"]
  /\ req = [c \in 1..MaxMutexCalls |-> NoRequest]
  /\ loc = [c \in 1..MaxMutexCalls |-> NoLocal]
  /\ res = [c \in 1..MaxMutexCalls |-> NoResult]
  /\ created = [a \in AccountIds |-> 0]
  /\ clockReads = {}
  /\ rowLock = [a \in AccountIds |-> 0]
  /\ rowVersion = [a \in AccountIds |-> 0]
  /\ map = [k \in MutexKeys |-> Undefined]
  /\ dateNow = 0
  /\ destroyed = FALSE
  /\ detached = {}

NextMutex ==
  \/ \E c \in Calls : CallCreateAccount(c) /\ Contention'
  \/ \E c \in Calls : CreateOpeningEntry(c) /\ Contention'
  \/ \E c \in Calls : CreateAccountReturn(c) /\ Contention'
  \/ \E c \in Calls : CallMutationOn(c, "deposit", AccountIds) /\ Contention'
  \/ \E c \in Calls : CallMutationOn(c, "withdraw", AccountIds) /\ Contention'
  \/ \E c \in Calls : MutationGetById(c) /\ Contention'
  \/ \E c \in Calls : DepositCreateTx(c) /\ Contention'
  \/ \E c \in Calls : DepositUpdateBalance(c) /\ Contention'
  \/ \E c \in Calls : WithdrawCheck(c) /\ Contention'
  \/ \E c \in Calls : WithdrawCreateTx(c) /\ Contention'
  \/ \E c \in Calls : WithdrawUpdateBalance(c) /\ Contention'
  \/ \E c \in Calls : MutationReturn(c) /\ Contention'

SpecMutex == InitMutex /\ [][NextMutex]_vars

\* The continuation of call c after an await inside the try block: the event
\* loop runs it once the awaited promise has resolved.
HolderStep(c) ==
  /\ \/ MutationGetById(c)
     \/ DepositCreateTx(c)
     \/ DepositUpdateBalance(c)
     \/ WithdrawCheck(c)
     \/ WithdrawCreateTx(c)
     \/ WithdrawUpdateBalance(c)
     \/ MutationReturn(c)
  /\ Contention'

\* The same runs, in which every call that holds a mutex goes on until it
\* has invoked its release handle.
SpecMutexFair ==
  SpecMutex /\ \A c \in 1..MaxMutexCalls : WF_vars(HolderStep(c))

\* The runs of the service in which time passes and the cleanup timer of
\* MutexMap fires, before any account is created: movements of one cent are
\* made on any account id, each takes the mutex of its key and, having found
\* no account, releases it; at most MaxSweepInFlight calls are in flight.
Sweeping ==
  /\ \A c \in Calls :
       req[c].op \in {"deposit", "withdraw"} => req[c].amountCents = 1
  /\ Cardinality(InFlight) <= MaxSweepInFlight

InitSweep ==
  /\ accounts = [a \in AccountIds |-> NoAccount]
  /\ transactions = <<>>
  /\ locked = [k \in MutexInstances |-> FALSE]
  /\ queue = [k \in MutexInstances |-> <<>>]
  /\ pc = [c \in 1..MaxSweepCalls |-> "idle"]
  /\ req = [c \in 1..MaxSweepCalls |-> NoRequest]
  /\ loc = [c \in 1..MaxSweepCalls |-> NoLocal]
  /\ res = [c \in 1..MaxSweepCalls |-> NoResult]
  /\ created = [a \in AccountIds |-> 0]
  /\ clockReads = {}
  /\ rowLock = [a \in AccountIds |-> 0]
  /\ rowVersion = [a \in AccountIds |-> 0]
  /\ map = [k \in MutexKeys |-> Undefined]
  /\ dateNow = 0
  /\ destroyed = FALSE
  /\ detached = {}

NextSweep ==
  \/ \E c \in Calls : CallMutationOn(c, "deposit", AccountIds) /\ Sweeping'
  \/ \E c \in Calls : CallMutationOn(c, "withdraw", AccountIds) /\ Sweeping'
  \/ \E c \in Calls : MutationGetById(c) /\ Sweeping'
  \/ \E c \in Calls : DepositCreateTx(c) /\ Sweeping'
  \/ \E c \in Calls : WithdrawCheck(c) /\ Sweeping'
  \/ \E d \in TimeSteps : Tick(d)
  \/ cleanup

SpecSweep == InitSweep /\ [][NextSweep]_vars

\* The same runs with at most MaxDestroyInFlight calls in flight, in which
\* destroy() may be called on the MutexMap.
Destroying ==
  /\ \A c \in Calls :
       req[c].op \in {"deposit", "withdraw"} => req[c].amountCents = 1
  /\ Cardinality(InFlight) <= MaxDestroyInFlight

InitDestroy ==
  /\ accounts = [a \in AccountIds |-> NoAccount]
  /\ transactions = <<>>
  /\ locked = [k \in MutexInstances |-> FALSE]
  /\ queue = [k \in MutexInstances |-> <<>>]
  /\ pc = [c \in 1..MaxDestroyCalls |-> "idle"]
  /\ req = [c \in 1..MaxDestroyCalls |-> NoRequest]
  /\ loc = [c \in 1..MaxDestroyCalls |-> NoLocal]
  /\ res = [c \in 1..MaxDestroyCalls |-> NoResult]
  /\ created = [a \in AccountIds |-> 0]
  /\ clockReads = {}
  /\ rowLock = [a \in AccountIds |-> 0]
  /\ rowVersion = [a \in AccountIds |-> 0]
  /\ map = [k \in MutexKeys |-> Undefined]
  /\ dateNow = 0
  /\ destroyed = FALSE
  /\ detached = {}

NextDestroy ==
  \/ \E c \in Calls : CallMutationOn(c, "deposit", AccountIds) /\ Destroying'
  \/ \E c \in Calls : CallMutationOn(c, "withdraw", AccountIds) /\ Destroying'
  \/ \E c \in Calls : MutationGetById(c) /\ Destroying'
  \/ \E c \in Calls : DepositCreateTx(c) /\ Destroying'
  \/ \E c \in Calls : WithdrawCheck(c) /\ Destroying'
  \/ \E d \in TimeSteps : Tick(d)
  \/ cleanup
  \/ destroy

SpecDestroy == InitDestroy /\ [][NextDestroy]_vars

\* The release handle that lock() gave call c is invoked again after the
\* call has released: the closure runs as it did the first time.
ReleaseAgain(c) ==
  /\ pc[c] = "done"
  /\ req[c].op \in {"deposit", "withdraw"}
  /\ res[c].error # "INVALID_AMOUNT"
  /\ MutexRelease(c, req[c].accountId, "done")
  /\ UNCHANGED <<accounts, transactions, req, loc, res, created, clockReads,
                 rowLock, rowVersion, map, dateNow, destroyed, detached>>

\* The runs in which movements of one cent are made on any account id before
\* any account is created, at most MaxReleaseInFlight in flight, and a
\* release handle may be invoked more than once.
Releasing ==
  /\ \A c \in Calls :
       req[c].op \in {"deposit", "withdraw"} => req[c].amountCents = 1
  /\ Cardinality(InFlight) <= MaxReleaseInFlight

InitRelease ==
  /\ accounts = [a \in AccountIds |-> NoAccount]
  /\ transactions = <<>>
  /\ locked = [k \in MutexInstances |-> FALSE]
  /\ queue = [k \in MutexInstances |-> <<>>]
  /\ pc = [c \in 1..MaxReleaseCalls |-> "idle"]
  /\ req = [c \in 1..MaxReleaseCalls |-> NoRequest]
  /\ loc = [c \in 1..MaxReleaseCalls |-> NoLocal]
  /\ res = [c \in 1..MaxReleaseCalls |-> NoResult]
  /\ created = [a \in AccountIds |-> 0]
  /\ clockReads = {}
  /\ rowLock = [a \in AccountIds |-> 0]
  /\ rowVersion = [a \in AccountIds |-> 0]
  /\ map = [k \in MutexKeys |-> Undefined]
  /\ dateNow = 0
  /\ destroyed = FALSE
  /\ detached = {}

NextRelease ==
  \/ \E c \in Calls : CallMutationOn(c, "deposit", AccountIds) /\ Releasing'
  \/ \E c \in Calls : CallMutationOn(c, "withdraw", AccountIds) /\ Releasing'
  \/ \E c \in Calls : MutationGetById(c) /\ Releasing'
  \/ \E c \in Calls : DepositCreateTx(c) /\ Releasing'
  \/ \E c \in Calls : WithdrawCheck(c) /\ Releasing'
  \/ \E c \in Calls : ReleaseAgain(c) /\ Releasing'

SpecRelease == InitRelease /\ [][NextRelease]_vars

----
(***************************************************************************)
(* Properties of the service on the in-memory store (Spec).                *)
(***************************************************************************)

\* The calls made on account a: deposits, withdrawals, blocks and unblocks.
CallsOn(a) == {c \in Calls : req[c].accountId = a}

\* No call that reads or writes account a is in flight.
Quiescent(a) ==
  \A c \in InFlight : req[c].accountId # a /\ loc[c].account.accountId # a

\* Where a deposit or a withdrawal holds the mutex of its account.
InSection(c) ==
  /\ req[c].op \in {"deposit", "withdraw"}
  /\ pc[c] \in {"granted", "read", "checked", "created", "updated"}

\* C1 (balance integrity): for every account that no call in flight touches,
\* balanceCents equals the balance the account was created with plus the sum
\* of valueCents over all journal entries of the account.
C1_BalanceIntegrity ==
  \A a \in AccountIds :
    (accounts[a] # NoAccount /\ Quiescent(a)) =>
      accounts[a].balanceCents =
        created[a] + SumValueCents(EntriesOf(transactions, a))

\* C2 (no negative balance): every account has balanceCents >= 0 in every
\* state, and a withdrawal that has passed the existence and active checks and
\* asks for more than the stored balance fails with INSUFFICIENT_FUNDS at that
\* step, leaving accounts and journal as they were.
C2_NoNegativeBalance ==
  /\ [](\A a \in AccountIds : accounts[a].balanceCents >= 0)
  /\ [][\A c \in Calls :
          ( /\ pc[c] = "read" /\ pc'[c] # "read"
            /\ req[c].op = "withdraw"
            /\ loc[c].account # NoAccount
            /\ loc[c].account.activeFlag
            /\ req[c].amountCents > accounts[req[c].accountId].balanceCents )
          => /\ pc'[c] = "done"
             /\ res'[c].error = "INSUFFICIENT_FUNDS"
             /\ accounts' = accounts
             /\ transactions' = transactions]_vars

\* Two withdrawals on one account, the second made while the first was in
\* flight: one succeeded, the other was refused for insufficient funds.
C2_Witness ==
  \E c, d \in Calls :
    /\ c # d
    /\ req[c].op = "withdraw" /\ req[d].op = "withdraw"
    /\ req[c].accountId = req[d].accountId
    /\ req[c].concurrent \/ req[d].concurrent
    /\ pc[c] = "done" /\ res[c].error = "ok"
    /\ pc[d] = "done" /\ res[d].error = "INSUFFICIENT_FUNDS"
    /\ accounts[req[c].accountId].balanceCents >= 0

\* C3 (daily limit): for every account and every day, the sum of |valueCents|
\* over the account's debit entries dated that day does not exceed the
\* account's dailyWithdrawalLimitCents.
C3_DailyLimit ==
  \A a \in AccountIds : \A day \in Days :
    accounts[a] # NoAccount =>
      sumWithdrawalsForDay(transactions, a, day)
        <= accounts[a].dailyWithdrawalLimitCents

\* The calls on account a are all withdrawals of amountCents, all returned,
\* the clock stayed on one day, and the account was created with enough for
\* all of them and has a limit that not more than all of them can use up.
WithdrawalsOnly(a, amountCents) ==
  /\ accounts[a] # NoAccount
  /\ CallsOn(a) # {}
  /\ \A c \in CallsOn(a) : /\ req[c].op = "withdraw"
                           /\ req[c].amountCents = amountCents
                           /\ pc[c] = "done"
  /\ Cardinality(clockReads) <= 1
  /\ created[a] >= Cardinality(CallsOn(a)) * amountCents
  /\ Cardinality(CallsOn(a)) >= accounts[a].dailyWithdrawalLimitCents \div amountCents

Succeeded(a) == {c \in CallsOn(a) : res[c].error = "ok"}

\* C4 (concurrent withdrawals): when the N calls on an account are withdrawals
\* of A on one day, with balance >= N*A and N >= L \div A, exactly L \div A
\* succeed, the others fail with DAILY_LIMIT_EXCEEDED, and the balance is the
\* initial balance minus successes * A.
C4_ConcurrentWithdrawals ==
  \A a \in AccountIds : \A amountCents \in Amounts \ {0} :
    WithdrawalsOnly(a, amountCents) =>
      /\ Cardinality(Succeeded(a)) =
           accounts[a].dailyWithdrawalLimitCents \div amountCents
      /\ \A c \in CallsOn(a) \ Succeeded(a) :
           res[c].error = "DAILY_LIMIT_EXCEEDED"
      /\ accounts[a].balanceCents =
           created[a] - Cardinality(Succeeded(a)) * amountCents

\* Two withdrawals of the same amount on one account, one made while the
\* other was in flight: one succeeded, one hit the daily limit.
C4_Witness ==
  \E a \in AccountIds : \E amountCents \in Amounts \ {0} :
    /\ WithdrawalsOnly(a, amountCents)
    /\ Cardinality(CallsOn(a)) >= 2
    /\ \E c \in CallsOn(a) : req[c].concurrent
    /\ Succeeded(a) # {}
    /\ CallsOn(a) \ Succeeded(a) # {}

\* The calls on account a are all deposits of amountCents, all returned.
DepositsOnly(a, amountCents) ==
  /\ accounts[a] # NoAccount
  /\ CallsOn(a) # {}
  /\ \A c \in CallsOn(a) : /\ req[c].op = "deposit"
                           /\ req[c].amountCents = amountCents
                           /\ pc[c] = "done"

\* C5 (no lost update): two mutations of one account are never both between
\* taking and releasing the mutex; and when the N calls on an account are
\* deposits of A, all N succeed with N different transactions, the journal
\* holds N entries besides the opening one, and the balance is the initial
\* balance plus N * A.
C5_NoLostUpdate ==
  /\ \A c, d \in Calls :
       (c # d /\ InSection(c) /\ InSection(d)) =>
         req[c].accountId # req[d].accountId
  /\ \A a \in AccountIds : \A amountCents \in Amounts \ {0} :
       DepositsOnly(a, amountCents) =>
         /\ Succeeded(a) = CallsOn(a)
         /\ Cardinality({res[c].transactionId : c \in CallsOn(a)}) =
              Cardinality(CallsOn(a))
         /\ Len(EntriesOf(transactions, a)) =
              Cardinality(CallsOn(a)) + (IF created[a] > 0 THEN 1 ELSE 0)
         /\ accounts[a].balanceCents =
              created[a] + Cardinality(CallsOn(a)) * amountCents

\* Two deposits on one account, one made while the other was in flight, both
\* returned.
C5_Witness ==
  \E a \in AccountIds : \E amountCents \in Amounts \ {0} :
    /\ DepositsOnly(a, amountCents)
    /\ Cardinality(CallsOn(a)) >= 2
    /\ \E c \in CallsOn(a) : req[c].concurrent

----
(***************************************************************************)
(* Properties of the keyed operations on the in-memory store (SpecKeyed).  *)
(***************************************************************************)

\* The positions in the journal of the entries that carry a key.
EntriesWithKey(key) ==
  {i \in 1..Len(transactions) : transactions[i].idempotencyKey = key}

\* Call c takes a step of its own between acquiring and releasing the gate.
OwnStep(c) ==
  /\ pc[c] \in {"granted", "found", "summed", "pushed"}
  /\ pc'[c] # pc[c]

\* C6 (idempotent replay applies once): a deposit or withdrawal made after the
\* same operation with the same key returned successfully on the same account
\* returns successfully with that transactionId and that balanceCents, the
\* journal holds exactly one entry of the account with the key, and no step
\* of the second call changes an account or the journal.
C6_ReplayAppliesOnce ==
  /\ [](\A c \in DoneCalls :
          req[c].prior # {} =>
            /\ res[c].error = "ok"
            /\ req[c].prior = {<<res[c].transactionId, res[c].balanceCents>>}
            /\ Cardinality({i \in EntriesWithKey(req[c].idempotencyKey) :
                              transactions[i].accountId = req[c].accountId}) = 1)
  /\ [][\A c \in Calls :
          (req[c].prior # {} /\ OwnStep(c)) =>
            (accounts' = accounts /\ transactions' = transactions)]_vars

\* C7 (replay returns the historical result): a keyed call that comes back
\* from its lookup while the journal holds an entry of its account with its
\* key returns that entry's transactionId and balanceAfter, and leaves the
\* accounts and the journal unchanged.
C7_ReplayReturnsHistorical ==
  [][\A c \in Calls :
       \A i \in EntriesWithKey(req[c].idempotencyKey) :
         ( /\ pc[c] = "found" /\ pc'[c] # "found"
           /\ transactions[i].accountId = req[c].accountId )
         => /\ pc'[c] = "done"
            /\ res'[c].error = "ok"
            /\ res'[c].transactionId = transactions[i].transactionId
            /\ res'[c].balanceCents = transactions[i].balanceAfter
            /\ accounts' = accounts
            /\ transactions' = transactions]_vars

\* C8 (global uniqueness of idempotency keys): at most one journal entry
\* carries a given idempotency key, across all accounts.
C8_GlobalKeyUniqueness ==
  \A key \in IdempotencyKeys : Cardinality(EntriesWithKey(key)) <= 1

\* C10 (cross-account key rejection): a deposit or withdrawal made with a key
\* after a deposit with that key returned successfully on another account
\* fails with an error, and no step of it changes an account or the journal.
C10_CrossAccountRejection ==
  /\ [](\A c \in DoneCalls : req[c].conflict => res[c].error # "ok")
  /\ [][\A c \in Calls :
          (req[c].conflict /\ OwnStep(c)) =>
            (accounts' = accounts /\ transactions' = transactions)]_vars

----
(***************************************************************************)
(* Properties of the keyed deposit on the PostgreSQL store (SpecPg).       *)
(***************************************************************************)

\* Every call on account a is a deposit of amountCents with the key, every
\* one has returned, two of them at least were made and one of them was made
\* while another was running, and the key was used on no other account.
DuplicatesOnly(a, key, amountCents) ==
  /\ accounts[a] # NoAccount
  /\ Cardinality(CallsOn(a)) >= 2
  /\ \A c \in CallsOn(a) : /\ pc[c] = "done"
                           /\ req[c].op = "deposit"
                           /\ req[c].idempotencyKey = key
                           /\ req[c].amountCents = amountCents
  /\ \E c \in CallsOn(a) : req[c].concurrent
  /\ \A c \in Calls : req[c].idempotencyKey = key => req[c].accountId = a

\* C9 (concurrent duplicates): when the deposits made on an account, some of
\* them concurrently, all carry the same idempotency key, every one of them
\* returns successfully with the same transactionId, the journal holds
\* exactly one entry with the key, and the balance of the account is the
\* balance it was created with plus one deposit.
C9_ConcurrentDuplicates ==
  \A a \in AccountIds, key \in IdempotencyKeys, amountCents \in KeyedAmounts :
    DuplicatesOnly(a, key, amountCents) =>
      /\ \A c \in CallsOn(a) : res[c].error = "ok"
      /\ \A c, d \in CallsOn(a) : res[c].transactionId = res[d].transactionId
      /\ Cardinality(EntriesWithKey(key)) = 1
      /\ \A i \in EntriesWithKey(key) :
           /\ transactions[i].accountId = a
           /\ transactions[i].transactionId \in
                {res[c].transactionId : c \in CallsOn(a)}
      /\ accounts[a].balanceCents = created[a] + amountCents

\* Three deposits with one key have returned on an account, and one of them
\* lost the row to another and was retried.
C9_Witness ==
  \E a \in AccountIds, key \in IdempotencyKeys, amountCents \in KeyedAmounts :
    /\ DuplicatesOnly(a, key, amountCents)
    /\ Cardinality(CallsOn(a)) >= 3
    /\ \E c \in CallsOn(a) : res[c].retries >= 1

----
(***************************************************************************)
(* Error kinds, limits, blocking and creation.                             *)
(***************************************************************************)

\* The codes of the AppError subclasses (src/common/errors.ts).
ErrorCodes ==
  {"NOT_FOUND", "PERSON_NOT_FOUND", "ACCOUNT_BLOCKED", "ALREADY_BLOCKED",
   "ALREADY_UNBLOCKED", "INVALID_AMOUNT", "INSUFFICIENT_FUNDS",
   "DAILY_LIMIT_EXCEEDED"}

\* C11 (kind of the key conflict): a deposit whose key lookup found a
\* committed entry of another account fails with an error of the kind
\* IdempotencyKeyConflict, which is none of the other kinds.
C11_KeyConflictKind ==
  [][\A c \in Calls :
       ( /\ pc[c] = "keyRead" /\ pc'[c] # "keyRead"
         /\ loc[c].existing # NoTransaction
         /\ loc[c].existing.accountId # req[c].accountId )
       => /\ pc'[c] = "done"
          /\ res'[c].error = "IDEMPOTENCY_KEY_CONFLICT"
          /\ res'[c].error \notin ErrorCodes]_vars

\* C12 (daily limit boundary): a withdrawal that has passed the existence,
\* active and balance checks writes its debit when the debits of the day of
\* its check plus its amount are at most the limit, equality included, and
\* then updates the balance and returns successfully; it fails with
\* DAILY_LIMIT_EXCEEDED, writing nothing, when they exceed the limit.
C12_DailyLimitBoundary ==
  [][\A c \in Calls :
       LET a == req[c].accountId
           earlier == sumWithdrawalsForDay(transactions, a, loc[c].today)
           limit == accounts[a].dailyWithdrawalLimitCents
       IN (req[c].op = "withdraw" /\ pc'[c] # pc[c]) =>
            /\ (pc[c] = "checked" /\ earlier + req[c].amountCents <= limit) =>
                 /\ pc'[c] = "created"
                 /\ Len(transactions') = Len(transactions) + 1
                 /\ transactions'[Len(transactions')].valueCents =
                      -req[c].amountCents
            /\ (pc[c] = "checked" /\ earlier + req[c].amountCents > limit) =>
                 /\ pc'[c] = "done"
                 /\ res'[c].error = "DAILY_LIMIT_EXCEEDED"
                 /\ accounts' = accounts /\ transactions' = transactions
            /\ pc[c] = "created" =>
                 /\ pc'[c] = "updated"
                 /\ accounts'[a].balanceCents =
                      accounts[a].balanceCents - req[c].amountCents
            /\ pc[c] = "updated" => res'[c].error = "ok"]_vars

\* One withdrawal used the daily limit up exactly and succeeded, and a
\* withdrawal of one cent on the same day was refused.
C12_Witness ==
  \E a \in AccountIds : \E c, d \in CallsOn(a) : \E day \in Days :
    /\ clockReads = {day}
    /\ req[c].op = "withdraw" /\ pc[c] = "done" /\ res[c].error = "ok"
    /\ sumWithdrawalsForDay(transactions, a, day) =
         accounts[a].dailyWithdrawalLimitCents
    /\ req[d].op = "withdraw" /\ pc[d] = "done" /\ req[d].amountCents = 1
    /\ res[d].error = "DAILY_LIMIT_EXCEEDED"

\* A blockAccount or unblockAccount on the account of call c was made after
\* call c.
LaterToggle(c) ==
  \E d \in Calls : /\ d > c
                   /\ req[d].accountId = req[c].accountId
                   /\ req[d].op \in {"blockAccount", "unblockAccount"}

\* Call c found its account blocked (active) and no call was changing or
\* has changed the flag since.
StaysBlocked(c) == req[c].flag = "blocked" /\ ~LaterToggle(c)

StaysActive(c) == req[c].flag = "active" /\ ~LaterToggle(c)

Movement(c) == req[c].op \in {"deposit", "withdraw"} /\ req[c].amountCents > 0

\* Call c, a deposit or a withdrawal, takes a step of its own.
MovementStep(c) ==
  /\ Movement(c)
  /\ pc[c] \in {"granted", "read", "checked", "created", "updated"}
  /\ pc'[c] # pc[c]

\* C13 (blocked account rejects movement): a deposit or withdrawal of a
\* positive amount made on an account whose activeFlag is false, and stays
\* false, fails with ACCOUNT_BLOCKED, and none of its steps changes an
\* account or the journal; a deposit made on an account whose activeFlag is
\* true, and stays true, after an unblock as after creation, succeeds.
C13_BlockedRejectsMovement ==
  /\ [](\A c \in DoneCalls :
          /\ (Movement(c) /\ StaysBlocked(c)) => res[c].error = "ACCOUNT_BLOCKED"
          /\ (Movement(c) /\ req[c].op = "deposit" /\ StaysActive(c)) =>
               res[c].error = "ok")
  /\ [][\A c \in Calls :
          (MovementStep(c) /\ StaysBlocked(c)) =>
            (accounts' = accounts /\ transactions' = transactions)]_vars

\* A movement was refused on the blocked account, the account was then
\* unblocked, and a deposit made after that succeeded.
C13_Witness ==
  \E m, u, d \in DoneCalls :
    /\ m < u /\ u < d
    /\ Movement(m) /\ req[m].flag = "blocked"
    /\ res[m].error = "ACCOUNT_BLOCKED"
    /\ req[u].op = "unblockAccount" /\ res[u].error = "ok"
    /\ req[u].accountId = req[m].accountId
    /\ req[d].op = "deposit" /\ req[d].accountId = req[m].accountId
    /\ StaysActive(d) /\ res[d].error = "ok"

Toggle(c) == req[c].op \in {"blockAccount", "unblockAccount"}

\* C14 (guarded Active/Blocked state machine): an account appears with
\* activeFlag true; a blockAccount made on an account whose flag is false
\* fails with ALREADY_BLOCKED and an unblockAccount made on one whose flag is
\* true fails with ALREADY_UNBLOCKED, their steps leaving the accounts as
\* they were; a blockAccount made on an active account and an unblockAccount
\* made on a blocked one succeed, and the step that succeeds sets the flag to
\* false and to true and changes nothing else.
C14_GuardedToggle ==
  /\ [](\A c \in DoneCalls :
          /\ (req[c].op = "blockAccount" /\ req[c].flag = "blocked") =>
               res[c].error = "ALREADY_BLOCKED"
          /\ (req[c].op = "unblockAccount" /\ req[c].flag = "active") =>
               res[c].error = "ALREADY_UNBLOCKED"
          /\ (req[c].op = "blockAccount" /\ req[c].flag = "active") =>
               res[c].error = "ok"
          /\ (req[c].op = "unblockAccount" /\ req[c].flag = "blocked") =>
               res[c].error = "ok")
  /\ [][/\ \A a \in AccountIds :
            (accounts[a] = NoAccount /\ accounts'[a] # NoAccount) =>
              accounts'[a].activeFlag
        /\ \A c \in Calls :
            (Toggle(c) /\ pc[c] = "flagRead" /\ pc'[c] # "flagRead") =>
              /\ pc'[c] = "done" =>
                   /\ res'[c].error \in {"ALREADY_BLOCKED", "ALREADY_UNBLOCKED"}
                   /\ accounts' = accounts
              /\ pc'[c] # "done" =>
                   accounts' =
                     [accounts EXCEPT ![req[c].accountId].activeFlag =
                        (req[c].op = "unblockAccount")]]_vars

\* On one account: an unblock was refused, a block succeeded, a second block
\* was refused and an unblock succeeded.
C14_Witness ==
  \E c1, c2, c3, c4 \in DoneCalls :
    /\ c1 < c2 /\ c2 < c3 /\ c3 < c4
    /\ \A c \in {c2, c3, c4} : req[c].accountId = req[c1].accountId
    /\ req[c1].op = "unblockAccount" /\ res[c1].error = "ALREADY_UNBLOCKED"
    /\ req[c2].op = "blockAccount" /\ res[c2].error = "ok"
    /\ req[c3].op = "blockAccount" /\ res[c3].error = "ALREADY_BLOCKED"
    /\ req[c4].op = "unblockAccount" /\ res[c4].error = "ok"
    /\ accounts[req[c1].accountId].activeFlag

\* C16 (account and opening entry visible together): in every state, an
\* account with a positive balance on which no call was made yet has its
\* opening entry, of that value, in the journal, and the journal has no
\* entry of an account that is not stored.
C16_VisibleTogether ==
  \A a \in AccountIds :
    /\ (accounts[a] # NoAccount /\ accounts[a].balanceCents > 0
        /\ CallsOn(a) = {}) =>
         /\ EntriesOf(transactions, a) # <<>>
         /\ Head(EntriesOf(transactions, a)).valueCents = accounts[a].balanceCents
    /\ EntriesOf(transactions, a) # <<>> => accounts[a] # NoAccount

\* The createAccount calls that returned an account.
Created == {c \in DoneCalls : req[c].op = "createAccount" /\ res[c].error = "ok"}

\* C15 (atomic creation): a createAccount with a positive amount that
\* returned has stored an account with that balance and exactly one journal
\* entry of it, of that value; and when no createAccount is running, the
\* accounts stored are those of the calls that returned: a call whose
\* journal insert failed has left no account.
C15_AtomicCreation ==
  /\ \A c \in Created :
       (req[c].amountCents > 0 /\ CallsOn(res[c].accountId) = {}) =>
         /\ accounts[res[c].accountId].balanceCents = req[c].amountCents
         /\ Len(EntriesOf(transactions, res[c].accountId)) = 1
         /\ Head(EntriesOf(transactions, res[c].accountId)).valueCents =
              req[c].amountCents
  /\ (\A c \in InFlight : req[c].op # "createAccount") =>
       {a \in AccountIds : accounts[a] # NoAccount} =
         {res[c].accountId : c \in Created}

\* C17 (rollback on partial failure): when a deposit or withdrawal that has
\* inserted its journal entry ends without success, the journal no longer
\* holds that entry and the balance of the account is the one the call read.
C17_RollbackOnPartialFailure ==
  [][\A c \in Calls :
       ( /\ req[c].op \in {"deposit", "withdraw"}
         /\ pc[c] = "created" /\ pc'[c] = "done"
         /\ res'[c].error # "ok" )
       => /\ \A i \in 1..Len(transactions') :
               transactions'[i].transactionId # loc[c].tx
          /\ accounts'[req[c].accountId].balanceCents =
               loc[c].account.balanceCents]_vars

DomainErrors ==
  {"INVALID_AMOUNT", "NOT_FOUND", "ACCOUNT_BLOCKED", "INSUFFICIENT_FUNDS",
   "DAILY_LIMIT_EXCEEDED"}

\* Call c, a deposit or a withdrawal, ends in a domain error at this step.
Refused(c) ==
  /\ req'[c].op \in {"deposit", "withdraw"}
  /\ pc[c] # "done" /\ pc'[c] = "done"
  /\ res'[c].error \in DomainErrors

\* C18 (failed operations change nothing): the step at which a deposit or a
\* withdrawal ends in a domain error leaves every account and the whole
\* journal as they are, and the call has inserted no journal entry and
\* written no balance before it: the balance of the account is still the one
\* the call read.
C18_FailedChangesNothing ==
  [][\A c \in Calls :
       Refused(c) =>
         /\ accounts' = accounts
         /\ transactions' = transactions
         /\ loc[c].tx = NoLocal.tx
         /\ loc[c].account # NoAccount =>
              accounts[req[c].accountId].balanceCents =
                loc[c].account.balanceCents]_vars

\* Three movements were refused, for a zero amount, for an unknown account
\* and for insufficient funds, and the account is stored.
C18_Witness ==
  /\ accounts[1] # NoAccount
  /\ \E c1, c2, c3 \in DoneCalls :
       /\ req[c1].op \in {"deposit", "withdraw"}
       /\ req[c1].amountCents = 0 /\ res[c1].error = "INVALID_AMOUNT"
       /\ req[c2].op \in {"deposit", "withdraw"}
       /\ req[c2].accountId = 2 /\ res[c2].error = "NOT_FOUND"
       /\ req[c3].op = "withdraw"
       /\ req[c3].accountId = 1 /\ res[c3].error = "INSUFFICIENT_FUNDS"

----
(***************************************************************************)
(* Properties of the mutex of an account key (SpecMutex).                  *)
(***************************************************************************)

\* The calls whose lock() on the mutex of `key` has resolved and whose
\* release handle has not been invoked.
Holders(key) == {c \in Calls : InSection(c) /\ req[c].accountId = key}

\* The calls whose lock() on the mutex of `key` has not resolved.
Waiters(key) == {c \in Calls : pc[c] = "waiting" /\ req[c].accountId = key}

\* C19 (mutual exclusion per key): for every key at most one call holds the
\* lock; and a lock() on the key resolves for a call only at a step before
\* which the key has no holder, or at which its holder invokes the release
\* handle, whatever the number of calls waiting.
C19_MutualExclusion ==
  /\ [](\A key \in MutexKeys : Cardinality(Holders(key)) <= 1)
  /\ [][\A key \in MutexKeys : \A c \in Calls :
          (c \notin Holders(key) /\ c \in Holders(key)') =>
            \A h \in Holders(key) : h \notin Holders(key)']_vars

\* One call holds the mutex of a key while two others wait for it.
C19_Witness ==
  \E key \in MutexKeys :
    /\ Cardinality(Holders(key)) = 1
    /\ Cardinality(Waiters(key)) >= 2

\* The calls to which the lock of `key` is granted at this step after a wait.
HandedOver(key) == {c \in Waiters(key) : pc'[c] = "granted"}

\* C20 (FIFO hand-off): lock() is called at the step a call is made, so of
\* two waiters the one with the smaller index has waited longer.  A waiter is
\* granted the lock only when no other waiter of the key has waited longer;
\* every release of a key that has waiters grants the lock to one of them,
\* and a waiter is granted the lock only at a release.
C20_FifoHandOff ==
  [][\A key \in MutexKeys :
       /\ \A c \in HandedOver(key) : \A d \in Waiters(key) : c <= d
       /\ Cardinality(HandedOver(key)) <= 1
       /\ (Waiters(key) # {} /\ \E h \in Holders(key) : pc'[h] = "done") =>
            HandedOver(key) # {}
       /\ HandedOver(key) # {} => \E h \in Holders(key) : pc'[h] = "done"]_vars

\* A call that had to wait holds the lock of a key after a call made before
\* it has returned, and a call made after it is still waiting.
C20_Witness ==
  \E key \in MutexKeys : \E b, c, d \in Calls :
    /\ b < c /\ c < d
    /\ req[b].accountId = key /\ req[b].op \in {"deposit", "withdraw"}
    /\ pc[b] = "done"
    /\ c \in Holders(key) /\ req[c].concurrent
    /\ d \in Waiters(key) /\ req[d].concurrent

\* Call c calls lock() on the mutex of `key` at this step.
CallsLock(c, key) ==
  /\ pc[c] = "idle"
  /\ pc'[c] \in {"waiting", "granted"}
  /\ req'[c].accountId = key

\* C21 (no starvation): every call that waits for the mutex of a key comes to
\* hold it, whatever the number of waiters; and a lock() on a key that no
\* call holds is granted at once, whatever is held or awaited on other keys.
C21_NoStarvation ==
  /\ \A c \in 1..MaxMutexCalls : \A key \in MutexKeys :
       (c \in Waiters(key)) ~> (c \in Holders(key))
  /\ [][\A c \in Calls : \A key \in MutexKeys :
          (CallsLock(c, key) /\ Holders(key) = {}) => pc'[c] = "granted"]_vars

\* A call waits for the mutex of a key that another call holds, while a
\* third call holds the mutex of the other key.
C21_Witness ==
  \E key, other \in MutexKeys :
    /\ key # other
    /\ Cardinality(Waiters(key)) >= 1
    /\ Cardinality(Holders(key)) = 1
    /\ Cardinality(Holders(other)) = 1

\* C22 (safe eviction): a key is removed from the map only at a step before
\* which no call holds its mutex and no call waits for it, and which leaves
\* the mutexes as they are; so a key whose mutex is held or awaited is in
\* the map in every state, however long ago it was fetched.
C22_SafeEviction ==
  /\ [](\A key \in MutexKeys :
          (Holders(key) # {} \/ Waiters(key) # {}) => map[key] # Undefined)
  /\ [][\A key \in MutexKeys :
          (map[key] # Undefined /\ map'[key] = Undefined) =>
            /\ Holders(key) = {} /\ Waiters(key) = {}
            /\ locked' = locked /\ queue' = queue]_vars

\* One key was fetched and has been removed by the sweep; the other, fetched
\* more than TTL_MS ago, is held and awaited and still in the map.
C22_Witness ==
  \E key, other \in MutexKeys :
    /\ key # other
    /\ map[other] = Undefined
    /\ \E c \in DoneCalls : req[c].accountId = other /\ req[c].amountCents > 0
    /\ map[key] # Undefined /\ dateNow - map[key] > TTL_MS
    /\ Holders(key) # {} /\ Waiters(key) # {}

----
(***************************************************************************)
(* Properties of the retry wrapper of the PostgreSQL store (SpecRetry).    *)
(***************************************************************************)

\* The attempt call c is making ends in a domain error at its next step: the
\* key belongs to another account, or the account is missing, blocked or
\* would overflow.
DomainFailure(c) ==
  \/ /\ pc[c] = "keyRead"
     /\ loc[c].existing # NoTransaction
     /\ loc[c].existing.accountId # req[c].accountId
  \/ /\ pc[c] = "rowLocked"
     /\ \/ loc[c].account = NoAccount
        \/ ~loc[c].account.activeFlag
        \/ Overflows(loc[c].account.balanceCents, req[c].amountCents)
        \/ loc[c].account.balanceCents + req[c].amountCents < 0

\* The attempt call c is making can fail on contention at its next step: the
\* row was updated after the snapshot of the transaction, or the key was
\* committed by another transaction.
Transient(c) ==
  \/ /\ pc[c] = "locking"
     /\ rowVersion[req[c].accountId] # loc[c].snapshot
  \/ /\ pc[c] = "rowLocked"
     /\ req[c].idempotencyKey # NoKey
     /\ SelectByIdempotencyKey(req[c].idempotencyKey) # NoTransaction

\* Call c starts a new attempt at this step.
Retried(c) == pc'[c] = "begun" /\ loc'[c].attemptNum = loc[c].attemptNum + 1

C24_BoundedRetry ==
  \A c \in Calls :
    /\ loc[c].attemptNum + 1 <= MAX_RETRIES
    /\ res[c].retries + 1 <= MAX_RETRIES

----
(***************************************************************************)
(* Properties of amounts, messages and the journal.                        *)
(***************************************************************************)

C26_GenericMessage ==
  \A c, d \in DoneCalls :
    (res[c].error = "INSUFFICIENT_FUNDS" /\ res[d].error = "INSUFFICIENT_FUNDS")
      => res[c].message = res[d].message

\* C27 (append-only journal): every step keeps every entry of the journal,
\* with all its fields, at its place: the journal after the step is the
\* journal before it, or that journal with entries added at its end; so the
\* entries of each account only grow in number.
C27_AppendOnly ==
  [][/\ Len(transactions') >= Len(transactions)
     /\ \A i \in 1..Len(transactions) : transactions'[i] = transactions[i]
     /\ \A a \in AccountIds :
          Len(EntriesOf(transactions', a)) >= Len(EntriesOf(transactions, a))]_vars

\* The journal holds an opening entry, a deposit and a withdrawal.
C27_Witness ==
  /\ Len(transactions) >= 3
  /\ \E i, j \in 1..Len(transactions) :
       /\ i > 1 /\ j > 1
       /\ transactions[i].valueCents > 0
       /\ transactions[j].valueCents < 0

\* What the checks of a withdrawal of amountCents give for the account it
\* read and the withdrawals of the day, taken in the order: the account
\* exists, it is active, the balance suffices, the daily limit allows it.
FirstFailure(account, amountCents, withdrawals) ==
  IF account = NoAccount THEN "NOT_FOUND"
  ELSE IF ~account.activeFlag THEN "ACCOUNT_BLOCKED"
  ELSE IF account.balanceCents < amountCents THEN "INSUFFICIENT_FUNDS"
  ELSE IF withdrawals + amountCents > account.dailyWithdrawalLimitCents
  THEN "DAILY_LIMIT_EXCEEDED"
  ELSE "ok"

\* C28 (order of withdraw checks): a withdrawal that has read its account
\* ends in an error exactly when one of the four checks fails, and the error
\* is that of the first failing check in the order exists, active, balance,
\* daily limit; it inserts its journal entry only when all four pass.  So a
\* blocked account gives ACCOUNT_BLOCKED whatever the amount, and an amount
\* above both the balance and the day's allowance gives INSUFFICIENT_FUNDS.
C28_OrderOfChecks ==
  [][\A c \in Calls :
       (req[c].op = "withdraw" /\ pc[c] \in {"read", "checked"}
        /\ pc'[c] # pc[c]) =>
          LET today == IF pc[c] = "checked" THEN loc[c].today ELSE loc'[c].today
              first == FirstFailure(loc[c].account, req[c].amountCents,
                         sumWithdrawalsForDay(transactions, req[c].accountId,
                                              today))
          IN CASE pc'[c] = "created" -> first = "ok"
               [] pc'[c] = "checked" -> first \in {"ok", "DAILY_LIMIT_EXCEEDED"}
               [] OTHER -> pc'[c] = "done" /\ res'[c].error = first]_vars

\* A withdrawal of an amount above the balance and above the daily limit of
\* an active account was refused with INSUFFICIENT_FUNDS.
C28_Witness ==
  \E c \in DoneCalls :
    /\ req[c].op = "withdraw"
    /\ res[c].error = "INSUFFICIENT_FUNDS"
    /\ accounts[req[c].accountId].activeFlag
    /\ req[c].amountCents > accounts[req[c].accountId].balanceCents
    /\ req[c].amountCents > accounts[req[c].accountId].dailyWithdrawalLimitCents

\* The journal positions of the debits of account a dated on the given day.
OwnDebitsOn(a, day) ==
  {i \in DOMAIN transactions : /\ transactions[i].accountId = a
                               /\ transactions[i].valueCents < 0
                               /\ transactions[i].transactionDate = day}

\* The sum of |valueCents| over a set of journal positions.
RECURSIVE TotalOf(_)
TotalOf(positions) ==
  IF positions = {} THEN 0
  ELSE LET i == CHOOSE j \in positions : TRUE
       IN Abs(transactions[i].valueCents) + TotalOf(positions \ {i})

\* C29 (daily aggregate): the daily total a withdrawal compares with the
\* limit is the sum of |valueCents| over the account's own debit entries
\* dated on the day of its clock read, and nothing else: credits, the opening
\* entry, the debits of other accounts and the debits of other days add
\* nothing. So on a day with no debit of the account yet, a withdrawal of up
\* to the whole limit passes the daily limit check.
C29_DailyAggregate ==
  \A c \in Calls :
    (req[c].op = "withdraw" /\ pc[c] = "checked") =>
      LET a == req[c].accountId
          limit == loc[c].account.dailyWithdrawalLimitCents
      IN /\ loc[c].withdrawals = TotalOf(OwnDebitsOn(a, loc[c].today))
         /\ (OwnDebitsOn(a, loc[c].today) = {} /\ req[c].amountCents <= limit) =>
               ~DailyLimitExceeded(loc[c].withdrawals, req[c].amountCents, limit)

\* An account used its daily limit up on day 1 and the other account has a
\* debit dated day 2; a withdrawal of the whole limit from the first account
\* reads the clock on day 2 and finds a daily total of 0, although the
\* journal holds the opening entry, the debit of day 1 and the other
\* account's debit.
C29_Witness ==
  \E c \in Calls : \E b \in AccountIds :
    LET a == req[c].accountId
    IN /\ req[c].op = "withdraw" /\ pc[c] = "checked" /\ b # a
       /\ loc[c].today = 2 /\ loc[c].withdrawals = 0
       /\ req[c].amountCents = loc[c].account.dailyWithdrawalLimitCents
       /\ TotalOf(OwnDebitsOn(a, 1)) = loc[c].account.dailyWithdrawalLimitCents
       /\ OwnDebitsOn(b, 2) # {}
       /\ \E i \in DOMAIN transactions : /\ transactions[i].accountId = a
                                         /\ transactions[i].valueCents > 0

\* The deposits and withdrawals on `key` that have been called and have not
\* returned or thrown.
Unfinished(key) ==
  {c \in Calls : /\ req[c].op \in {"deposit", "withdraw"}
                 /\ req[c].accountId = key
                 /\ pc[c] \notin {"idle", "done"}}

\* C30 (gate released on every path): a mutex is locked only while a deposit
\* or withdrawal on its key is still running, so no call that has returned or
\* thrown holds it; the step at which a call holding the mutex returns or
\* throws, whatever its outcome, unlocks the mutex or hands it to the oldest
\* waiter; and a deposit or withdrawal called on a key when every earlier one
\* on that key has completed takes the mutex at once.
C30_ReleasedOnEveryPath ==
  /\ [](\A key \in MutexKeys :
          Unfinished(key) = {} => (~locked[key] /\ queue[key] = <<>>))
  /\ [][\A c \in Calls : \A key \in MutexKeys :
          /\ (c \in Holders(key) /\ pc'[c] = "done") =>
                IF queue[key] = <<>>
                THEN ~locked'[key]
                ELSE /\ pc'[Head(queue[key])] = "granted"
                     /\ queue'[key] = Tail(queue[key])
          /\ (CallsLock(c, key) /\ Unfinished(key) = {}) =>
                pc'[c] = "granted"]_vars

\* On one account a deposit was refused with ACCOUNT_BLOCKED or NOT_FOUND, a
\* withdrawal was refused with INSUFFICIENT_FUNDS or DAILY_LIMIT_EXCEEDED, and
\* a later movement on the same account has taken the mutex.
C30_Witness ==
  \E a \in AccountIds : \E c, d, e \in CallsOn(a) :
    /\ c < e /\ d < e
    /\ req[c].op = "deposit" /\ pc[c] = "done"
    /\ res[c].error \in {"ACCOUNT_BLOCKED", "NOT_FOUND"}
    /\ req[d].op = "withdraw" /\ pc[d] = "done"
    /\ res[d].error \in {"INSUFFICIENT_FUNDS", "DAILY_LIMIT_EXCEEDED"}
    /\ Holders(a) = {e} /\ locked[a]

\* The deposits and withdrawals on account a that returned successfully.
Applied(a) ==
  {c \in DoneCalls : /\ req[c].op \in {"deposit", "withdraw"}
                     /\ req[c].accountId = a
                     /\ res[c].error = "ok"}

\* What a set of deposits and withdrawals adds to a balance.
RECURSIVE NetOf(_)
NetOf(calls) ==
  IF calls = {} THEN 0
  ELSE LET c == CHOOSE d \in calls : TRUE
       IN (IF req[c].op = "deposit" THEN req[c].amountCents
           ELSE -req[c].amountCents) + NetOf(calls \ {c})

\* C31 (store-level atomicity): with no call on the store in flight, the
\* balance of every account is the balance it was created with plus the
\* deposits and minus the withdrawals that returned successfully, it is not
\* negative, and the debits of each day do not exceed the daily limit,
\* although the calls overlapped and their callers held no mutex.
C31_StoreAtomicity ==
  \A a \in AccountIds :
    (InFlight = {} /\ accounts[a] # NoAccount) =>
      /\ accounts[a].balanceCents = created[a] + NetOf(Applied(a))
      /\ accounts[a].balanceCents >= 0
      /\ \A day \in KeyedDays :
           sumWithdrawalsForDay(transactions, a, day)
             <= accounts[a].dailyWithdrawalLimitCents

C33_RunningBalanceChain ==
  \A a \in AccountIds :
    (accounts[a] # NoAccount /\ Quiescent(a)) =>
      LET entries == EntriesOf(transactions, a)
      IN /\ \A i \in DOMAIN entries :
              entries[i].balanceAfter =
                (IF i = 1 THEN 0 ELSE entries[i - 1].balanceAfter)
                  + entries[i].valueCents
         /\ entries # <<>> =>
              entries[Len(entries)].balanceAfter = accounts[a].balanceCents

\* C34 (block is not lost to a concurrent mutation): no step of a deposit or
\* of a withdrawal changes the activeFlag or the dailyWithdrawalLimitCents of
\* an account, also while a blockAccount or unblockAccount is in flight or
\* has just returned; so a block that succeeded is not undone by a mutation.
C34_BlockNotLost ==
  [][\A c \in Calls :
       (req[c].op \in {"deposit", "withdraw"} /\ pc'[c] # pc[c]) =>
         \A a \in AccountIds :
           /\ accounts'[a].activeFlag = accounts[a].activeFlag
           /\ accounts'[a].dailyWithdrawalLimitCents =
                accounts[a].dailyWithdrawalLimitCents]_vars

\* C35 (concurrent identical toggles): when two blockAccount calls on an
\* account are in flight together, the first made with the account active,
\* and no other toggle is made on the account, exactly one of them succeeds
\* and the other fails with ALREADY_BLOCKED; and likewise two unblockAccount
\* calls on a blocked account, with ALREADY_UNBLOCKED.
C35_ConcurrentToggles ==
  \A c, d \in DoneCalls :
    (/\ c < d /\ Toggle(c) /\ req[d].op = req[c].op
     /\ req[d].accountId = req[c].accountId
     /\ req[c].flag = (IF req[c].op = "blockAccount" THEN "active" ELSE "blocked")
     /\ req[d].flag = "changing"
     /\ \A e \in CallsOn(req[c].accountId) \ {c, d} : ~Toggle(e)) =>
      LET already == IF req[c].op = "blockAccount"
                     THEN "ALREADY_BLOCKED" ELSE "ALREADY_UNBLOCKED"
      IN {res[c].error, res[d].error} = {"ok", already}

\* C36 (one day per withdrawal): the journal entry a withdrawal writes is
\* dated on the day against which its daily limit check was evaluated,
\* whatever the clock returns on its successive reads.
C36_OneDayPerWithdrawal ==
  [][\A c \in Calls :
       (req[c].op = "withdraw" /\ pc[c] = "checked" /\ pc'[c] = "created") =>
         /\ Len(transactions') = Len(transactions) + 1
         /\ transactions'[Len(transactions')].transactionDate = loc[c].today]_vars

\* The journal positions of the entries of account a written with the key.
KeyedEntries(a, key) ==
  {i \in DOMAIN transactions : /\ transactions[i].accountId = a
                               /\ transactions[i].idempotencyKey = key}

\* C37 (replay is keyed only by idempotencyKey and accountId): a request
\* whose key is carried by a committed entry of its account returns the
\* transactionId and balanceAfter of that entry, whatever its amount and
\* direction and whatever the state of the account, and changes neither the
\* accounts nor the journal.
C37_ReplayKeyedByKeyAndAccount ==
  [][\A c \in Calls :
       (/\ pc[c] = "found" /\ pc'[c] # pc[c]
        /\ KeyedEntries(req[c].accountId, req[c].idempotencyKey) # {}) =>
         /\ pc'[c] = "done" /\ res'[c].error = "ok"
         /\ \E i \in KeyedEntries(req[c].accountId, req[c].idempotencyKey) :
              /\ res'[c].transactionId = transactions[i].transactionId
              /\ res'[c].balanceCents = transactions[i].balanceAfter
         /\ accounts' = accounts /\ transactions' = transactions]_vars

\* The journal entries that successful deposits on account a returned.
Committed(a) == {res[c].transactionId : c \in Applied(a)}

\* C38 (retries never double-apply): the step at which a call starts a new
\* attempt changes neither the accounts nor the journal and leaves the call
\* without a row lock; a call that has returned or thrown takes no further
\* step; the step at which a call fails changes nothing; the step at which
\* it succeeds either replays an entry, changing nothing, or adds one entry
\* and the amount to the balance.  So with no call in flight every account
\* has one entry per successful deposit besides its opening entry, and its
\* balance is the opening balance plus their amounts, whatever the number
\* of retries.
C38_RetriesNeverDoubleApply ==
  /\ [][\A c \in Calls :
          /\ Retried(c) =>
               /\ accounts' = accounts /\ transactions' = transactions
               /\ \A a \in AccountIds : rowLock'[a] # c
          /\ pc[c] = "done" => (pc'[c] = "done" /\ res'[c] = res[c])
          /\ (req[c].op = "deposit" /\ pc[c] # "done" /\ pc'[c] = "done") =>
               IF res'[c].error # "ok"
               THEN accounts' = accounts /\ transactions' = transactions
               ELSE LET a == req[c].accountId
                    IN \/ /\ accounts' = accounts /\ transactions' = transactions
                          /\ res'[c].transactionId \in Committed(a)
                       \/ /\ Len(transactions') = Len(transactions) + 1
                          /\ res'[c].transactionId \notin Committed(a)
                          /\ accounts'[a].balanceCents =
                               accounts[a].balanceCents + req[c].amountCents]_vars
  /\ [](\A a \in AccountIds :
          (InFlight = {} /\ accounts[a] # NoAccount) =>
            /\ Len(EntriesOf(transactions, a)) =
                 Cardinality(Committed(a)) + (IF created[a] > 0 THEN 1 ELSE 0)
            /\ accounts[a].balanceCents =
                 created[a] + SumValueCents(EntriesOf(transactions, a))
                   - (IF created[a] > 0 THEN created[a] ELSE 0))

\* No call is in flight; a deposit committed an entry of its own after two
\* retries, and another deposit failed.
C38_Witness ==
  /\ InFlight = {}
  /\ \E c, d \in DoneCalls :
       /\ req[c].op = "deposit" /\ res[c].error = "ok" /\ res[c].retries >= 2
       /\ res[c].transactionId \notin
            {res[e].transactionId : e \in Applied(req[c].accountId) \ {c}}
       /\ req[d].op = "deposit" /\ res[d].error # "ok"

\* C39 (one mutex per key while in use): the calls that hold or await a
\* mutex for one key all do so on one and the same Mutex object, whether or
\* not destroy() has been called.
C39_OneMutexPerKey ==
  \A key \in MutexKeys : \A c, d \in Holders(key) \cup Waiters(key) :
    MutexOf(c, key) = MutexOf(d, key)

\* C40 (release is idempotent): a release handle invoked again after its
\* first invocation changes nothing: it resolves no waiter and leaves the
\* locked flag set while another call holds the lock; so every mutex that a
\* call holds is locked, and no mutex is held by two calls.
C40_ReleaseIdempotent ==
  /\ [][\A c \in Calls :
          (pc[c] = "done" /\ pc'[c] = "done") =>
            \/ \E d \in Calls \ {c} : pc'[d] # pc[d]
            \/ (locked' = locked /\ queue' = queue /\ pc' = pc)]_vars
  /\ [](\A key \in MutexKeys :
          /\ Holders(key) # {} => locked[key]
          /\ Cardinality(Holders(key)) <= 1)

====
